---- MODULE Spec2Model ----
(***************************************************************************)
(* A model of the coordination core of the External Adapter framework.     *)
(*                                                                         *)
(* Part 1: WebSocketTransport (src/src/transports/websocket.ts): the       *)
(* connection / subscription state machine driven by background ticks and  *)
(* by the socket's open, message, error and close events.  A tick is not   *)
(* atomic: it suspends at `await config.url(...)`, at                      *)
(* `await establishWsConnection(...)` and at `await sleep(...)`, and the   *)
(* socket's events interleave at those suspension points.                  *)
(*                                                                         *)
(* StreamingTransport (transports/abstract/streaming.ts) is not part of    *)
(* the sources at hand; its delta computation and its lastKnown update are *)
(* modelled from section 4.6 of the specification.                         *)
(*                                                                         *)
(* Part 2: AdapterEndpoint (src/src/adapter/endpoint.ts): construction,    *)
(* transport routing and request transforms, as functions of their inputs, *)
(* under the specification SpecEndpoint.                                   *)
(*                                                                         *)
(* Part 3: the subscription sets, under the specification                  *)
(* SpecSubscriptionSet: RedisSubscriptionSet                               *)
(* (src/src/util/subscription-set/redis-sorted-set.ts) with the sorted-set *)
(* commands it issues, and the local set, which is not part of the sources *)
(* at hand and is modelled from section 4.2 of the specification.          *)
(*                                                                         *)
(* Part 4: the caches, under the specification SpecCache:                  *)
(* CacheFactory.buildCache (src/src/cache/factory.ts) and the local and    *)
(* the Redis cache it constructs, which are not part of the sources at     *)
(* hand and are modelled from section 4.1 of the specification.            *)
(*                                                                         *)
(* Part 5: InputValidator, under the specification SpecValidator; it is    *)
(* not part of the sources at hand and is modelled from section 4.4 of the *)
(* specification and from its tests (src/unnamed/part_001).                *)
(*                                                                         *)
(* Part 6: the handling of a request, under the specification SpecHandler: *)
(* validation, routing by AdapterEndpoint.getTransportNameForRequest and   *)
(* delegation to the transport, in the order of section 4.4.               *)
(*                                                                         *)
(* Part 7: Metrics (src/src/metrics/index.ts): initialize and get, under   *)
(* the specification SpecMetrics.                                          *)
(***************************************************************************)
EXTENDS Integers, Sequences, FiniteSets, Bags, TLC

\* ------------------------------------------------------------------ bounds

\* Subscription parameter tuples, in subscription-set order.
ParamOrder == <<"X", "Y">>
Params == {ParamOrder[i] : i \in 1..Len(ParamOrder)}
\* The strings the url function may return.
Urls == {"a", "b"}
\* How many background ticks a run may start.
MaxTicks == 2
\* context.adapterConfig.WS_SUBSCRIPTION_UNRESPONSIVE_TTL, in clock steps: a
\* connection is unresponsive once a clock step has passed without activity.
WS_SUBSCRIPTION_UNRESPONSIVE_TTL == 0
\* Time is kept relative to Date.now(): for each timestamp t of the transport
\* the model holds Date.now() - t, and stops counting at LongAgo, beyond which
\* no comparison of the code tells two values apart.  A timestamp of 0 (the
\* value the transport is constructed with) is LongAgo.
LongAgo == WS_SUBSCRIPTION_UNRESPONSIVE_TTL + 1

\* What the handling of one inbound message may come to: config.handlers.message
\* returns undefined, an empty list or results, or the handling throws, either
\* before there are results (deserializeMessage or config.handlers.message
\* throws) or after (responseCache.write rejects).
MessageOutcomes == {"undefined", "empty", "results", "throws", "writeThrows"}

\* The outcomes with results to stamp and to write.
HasResults(r) == r \in {"results", "writeThrows"}

VARIABLES
    wsConnection,                   \* this.wsConnection (NoSocket = undefined)
    wsUrl,                          \* the url this.wsConnection was constructed with
    old,                            \* the sockets this.wsConnection held before, not yet at rest
    currentUrl,                     \* this.currentUrl
    sinceLastMessageReceived,       \* Date.now() - this.lastMessageReceivedAt
    sinceConnectionOpened,          \* Date.now() - this.connectionOpenedAt
    sinceStreamEstablished,         \* Date.now() - this.providerDataStreamEstablished
    desiredSubscriptions,           \* this.desiredSubscriptions
    lastKnown,                      \* StreamingTransport's last known subscriptions
    builders,                       \* whether config.builders is configured
    wsConnectionActive,             \* the ws_connection_active gauge
    pc,                             \* where the background tick is
    subscriptions,                  \* the SubscriptionDeltas of the running tick
    ticks,                          \* how many ticks have started
    tk,                             \* what the running tick observed and did
    last,                           \* the last event handled
    endpoint,                       \* an AdapterEndpoint, once constructed
    routed,                         \* the last getTransportNameForRequest call
    transformed,                    \* the last runRequestTransforms call
    now,                            \* Date.now()
    subscriptionSet,                \* the set SubscriptionSetFactory.buildSet returned
    getAllCall,                     \* where a RedisSubscriptionSet.getAll in flight is
    added,                          \* the add calls made, in order
    answer,                         \* what the get or getAll that has just returned answered
    cache,                          \* the cache CacheFactory.buildCache returned
    written,                        \* for each key, what became of the last set of it
    recency,                        \* the keys used, least recently used first
    read,                           \* what the cache get that has just returned answered
    validator,                      \* the last new InputValidator(inputConfig) call
    validated,                      \* the last validateInput call
    handled,                        \* the last request handled and its answer
    metrics,                        \* a Metrics object, once constructed
    got                             \* the last Metrics.get call

vars == <<wsConnection, wsUrl, old, currentUrl, sinceLastMessageReceived,
          sinceConnectionOpened, sinceStreamEstablished, desiredSubscriptions, lastKnown,
          builders, wsConnectionActive, pc, subscriptions, ticks, tk, last>>

endpointVars == <<endpoint, routed, transformed>>

subscriptionSetVars == <<now, subscriptionSet, getAllCall, added, answer>>

cacheVars == <<cache, written, recency, read>>

validatorVars == <<validator, validated>>

metricsVars == <<metrics, got>>

allVars ==
    <<vars, endpointVars, subscriptionSetVars, cacheVars, validatorVars, handled, metricsVars>>

\* What the transport's steps leave alone.
outsideTransport ==
    <<endpointVars, subscriptionSetVars, cacheVars, validatorVars, handled, metricsVars>>

\* ----------------------------------------------------------------- helpers

Min(a, b) == IF a < b THEN a ELSE b
Max(a, b) == IF a > b THEN a ELSE b

\* An array holding the members of S, in subscription-set order.
ToArray(S) == SelectSeq(ParamOrder, LAMBDA p : p \in S)

\* The last event handled: its type, whether it came from this.wsConnection
\* (cur), what config.handlers.message made of it (result), whether
\* ResponseCache.write was called (wrote), and the age of the
\* providerDataStreamEstablished its results were stamped with (pdse, -1 when
\* there was no result to stamp).
NoEvent == [type |-> "none", cur |-> TRUE, result |-> "-", wrote |-> FALSE, pdse |-> -1]

\* The record of a tick: how it ended (outcome) and how the tick before it
\* did (prev); whether, when it started, the socket was not closed
\* (startOpen) and the connection unresponsive (startUnresp); the same two
\* when it made its checks (evalOpen, evalUnresp), with urlChanged and the url
\* it got; in order, the sockets it closed and opened and the messages
\* it sent (ops); and the readyState this.wsConnection had when the tick
\* came to send its messages (sentOn).
NoTick == [outcome |-> "none", prev |-> "none", startOpen |-> FALSE, startUnresp |-> FALSE,
           evalOpen |-> FALSE, evalUnresp |-> FALSE,
           urlChanged |-> FALSE, url |-> "", ops |-> <<>>, sentOn |-> "-"]

NoDeltas == [new |-> {}, stale |-> {}, desired |-> {}]

\* No AdapterEndpoint constructed, no call made on one.
NoEndpoint == [state |-> "none"]
NoEndpointYet == [object |-> NoEndpoint]
NoRoute == [result |-> [kind |-> "none"]]
NoTransform == [done |-> FALSE]

EndpointInit ==
    /\ endpoint = NoEndpointYet
    /\ routed = NoRoute
    /\ transformed = NoTransform

\* No subscription set built, no call made on one.
NoSet == [type |-> "none"]
NoGetAll == [pc |-> "idle"]
NoAnswer == [op |-> "none"]

SubscriptionSetInit ==
    /\ now = 0
    /\ subscriptionSet = NoSet
    /\ getAllCall = NoGetAll
    /\ added = <<>>
    /\ answer = NoAnswer

\* ----------------------------------------------------- WebSocketTransport

\* A socket: its readyState, the subscriptions the provider holds for it
\* (`active`), and whether the open handler registered on it is running.
\* NoSocket stands for `this.wsConnection` being undefined.
NoSocket == [readyState |-> "NONE", active |-> {}, handler |-> "none"]

\* new ctor(url, undefined, options): a socket starts CONNECTING.
NewSocket == [readyState |-> "CONNECTING", active |-> {}, handler |-> "none"]

\* A socket from which no event can come any more.
AtRest(sock) == sock.readyState \in {"NONE", "CLOSED"} /\ sock.handler = "none"

\* `this.wsConnection = new ctor(...)`: the socket held so far is referenced
\* by its listeners only; it is kept for as long as events can come from it.
Replaced(sock) ==
    IF AtRest(sock) THEN old ELSE old (+) SetToBag({[sock EXCEPT !.active = {}]})

\* connectionClosed(): no socket yet, or the socket reports CLOSED.
connectionClosed ==
    wsConnection = NoSocket \/ wsConnection.readyState = "CLOSED"

\* `Math.max(0, now - this.lastMessageReceivedAt)` and its like.
timeSinceLastMessage == Max(0, sinceLastMessageReceived)
timeSinceConnectionOpened == Max(0, sinceConnectionOpened)

timeSinceLastActivity == Min(timeSinceLastMessage, timeSinceConnectionOpened)

connectionUnresponsive ==
    /\ timeSinceLastActivity > 0
    /\ timeSinceLastActivity > WS_SUBSCRIPTION_UNRESPONSIVE_TTL

\* A skip check that takes a closed socket for no socket.
ShouldSkipWhenClosed(new) == new = {} /\ connectionClosed

\* `!subscriptions.new.length && !this.wsConnection`
ShouldSkip(new) == new = {} /\ wsConnection = NoSocket

\* A close check that forgets the unresponsive connection.
ShouldCloseUrlOnly(closed, urlChanged, unresponsive) == ~closed /\ urlChanged

\* `!connectionClosed && (urlChanged || connectionUnresponsive)`
ShouldClose(closed, urlChanged, unresponsive) == ~closed /\ (urlChanged \/ unresponsive)

\* A forced close that empties subscriptions.new.
NewAfterCloseNone(deltas) == {}

\* A forced close that leaves subscriptions.new as the delta it was.
NewAfterCloseKeepsDelta(deltas) == deltas.new

\* `subscriptions.new = this.desiredSubscriptions` after a forced close.
NewAfterClose(deltas) == desiredSubscriptions

\* An open check that does not look at the desired subscriptions.
ShouldOpenAnyway(closed) == closed

\* `connectionClosed && this.desiredSubscriptions.length`
ShouldOpen(closed) == closed /\ desiredSubscriptions # {}

\* A close() that leaves the socket as it is.
CloseSocketLeavesOpen(sock) == sock

\* An open branch that leaves this.currentUrl as it is.
UrlOfOldSocket(urlFromConfig) == currentUrl

\* `this.currentUrl = urlFromConfig`, before the socket is constructed.
UrlOfNewSocket(urlFromConfig) == urlFromConfig

\* this.wsConnection.close(): the socket starts closing; the provider drops
\* what it held for it.
CloseSocket(sock) ==
    [sock EXCEPT !.readyState = IF @ = "CLOSED" THEN @ ELSE "CLOSING", !.active = {}]

\* A message of the tick: `on` tells whether it went out on the socket the
\* tick started with ("old") or on the one it constructed ("new").
Msg(kind, p, on) == [op |-> "send", kind |-> kind, p |-> p, on |-> on]

\* A sendMessages that drops the unsubscribes.
sendMessagesSubscribesOnly(on, new, stale) ==
    [i \in 1..Len(ToArray(new)) |-> Msg("subscribe", ToArray(new)[i], on)]

\* sendMessages: the subscribes, then the unsubscribes, each sent on
\* this.wsConnection.
sendMessages(on, new, stale) ==
    [i \in 1..Len(ToArray(new)) |-> Msg("subscribe", ToArray(new)[i], on)]
        \o [i \in 1..Len(ToArray(stale)) |-> Msg("unsubscribe", ToArray(stale)[i], on)]

\* `if (this.config.builders) await this.sendMessages(...)`
Outgoing(on, deltas) ==
    IF builders THEN sendMessages(on, deltas.new, deltas.stale) ELSE <<>>

\* The socket once msgs were sent on it: the provider takes them when the
\* socket is OPEN, and nothing is delivered otherwise.
Delivered(sock, msgs) ==
    IF sock.readyState # "OPEN" THEN sock
    ELSE LET subs == {msgs[i].p : i \in {j \in 1..Len(msgs) : msgs[j].kind = "subscribe"}}
             unsubs == {msgs[i].p : i \in {j \in 1..Len(msgs) : msgs[j].kind = "unsubscribe"}}
         IN [sock EXCEPT !.active = (@ \cup subs) \ unsubs]

\* A message handler that stamps its results with connectionOpenedAt.
StampedWithConnectionOpened(r) == IF HasResults(r) THEN sinceConnectionOpened ELSE -1

\* `providerDataStreamEstablished: this.providerDataStreamEstablished` on
\* every result config.handlers.message returned.
Stamped(r) == IF HasResults(r) THEN sinceStreamEstablished ELSE -1

\* `Array.isArray(results)` in the message handler.
IsArray(r) == r = "empty" \/ HasResults(r)

\* The handling of the message ends in an exception.
Throws(r) == r \in {"throws", "writeThrows"}

\* "Unresponsive" as the specification words it:
\* min(now - lastMessageReceivedAt, now - connectionOpenedAt) exceeds the TTL.
ClaimUnresponsive ==
    Min(sinceLastMessageReceived, sinceConnectionOpened) > WS_SUBSCRIPTION_UNRESPONSIVE_TTL

\* The keys (fingerprints) and the values of the cache's entries.
CacheKeys == {"f", "g", "h"}
CacheValues == {"v", "w"}

\* No cache built, no call made on one.
NoCache == [type |-> "none"]
NotWritten == [status |-> "never"]
NoRead == [op |-> "none"]

CacheInit ==
    /\ cache = NoCache
    /\ written = [key \in CacheKeys |-> NotWritten]
    /\ recency = <<>>
    /\ read = NoRead

\* No InputValidator constructed, no input validated.
NoValidator == [result |-> [kind |-> "none"]]
NoValidated == [result |-> [kind |-> "none"]]

ValidatorInit ==
    /\ validator = NoValidator
    /\ validated = NoValidated

\* No request handled.
NoRequest == [answered |-> FALSE]

\* No Metrics object constructed, no get called.
NoMetrics == [type |-> "none"]
NoGet == [called |-> FALSE]

\* ------------------------------------------------------------------- Init

Init ==
    /\ wsConnection = NoSocket
    /\ wsUrl = ""
    /\ old = EmptyBag
    /\ currentUrl = ""
    /\ sinceLastMessageReceived = LongAgo
    /\ sinceConnectionOpened = LongAgo
    /\ sinceStreamEstablished = LongAgo
    /\ desiredSubscriptions = {}
    /\ lastKnown = {}
    /\ builders \in BOOLEAN
    /\ wsConnectionActive = 0
    /\ pc = "idle"
    /\ subscriptions = NoDeltas
    /\ ticks = 0
    /\ tk = NoTick
    /\ last = NoEvent
    /\ EndpointInit
    /\ SubscriptionSetInit
    /\ CacheInit
    /\ ValidatorInit
    /\ handled = NoRequest
    /\ metrics = NoMetrics
    /\ got = NoGet

\* ------------------------------------------------- StreamingTransport tick

\* Section 4.6, step 2: new = desired \ lastKnown, stale = lastKnown \ desired.
SubscriptionDeltas(d) ==
    [new |-> d \ lastKnown, stale |-> lastKnown \ d, desired |-> d]

\* streamHandler up to its first suspension point: it records the desired
\* subscriptions, then either skips (returns at once) or awaits config.url.
StreamHandlerEnter(deltas) ==
    /\ desiredSubscriptions' = deltas.desired
    /\ subscriptions' = IF ShouldSkip(deltas.new) THEN NoDeltas ELSE deltas
    /\ pc' = IF ShouldSkip(deltas.new) THEN "idle" ELSE "url"
    /\ tk' = [NoTick EXCEPT
                !.outcome = IF ShouldSkip(deltas.new) THEN "skipped" ELSE "running",
                !.prev = tk.outcome,
                !.startOpen = ~connectionClosed,
                !.startUnresp = ClaimUnresponsive]

\* Section 4.6: a tick reads the desired set d, computes the deltas and
\* invokes streamHandler; when streamHandler returns, lastKnown becomes d.
BackgroundExecute(d) ==
    /\ UNCHANGED outsideTransport
    /\ pc = "idle"
    /\ ticks < MaxTicks
    /\ ticks' = ticks + 1
    /\ StreamHandlerEnter(SubscriptionDeltas(d))
    /\ lastKnown' = IF pc' = "idle" THEN d ELSE lastKnown
    /\ last' = [NoEvent EXCEPT !.type = IF pc' = "idle" THEN "tickEnd" ELSE "none"]
    /\ UNCHANGED <<wsConnection, wsUrl, old, currentUrl, sinceLastMessageReceived,
                   sinceConnectionOpened, sinceStreamEstablished, builders,
                   wsConnectionActive>>

\* streamHandler from `if (this.config.builders)` to `await sleep(...)`:
\* the messages go out on this.wsConnection (sock), and the tick sleeps.
SendAndSleep(sock, on, deltas, tick) ==
    /\ wsConnection' = Delivered(sock, Outgoing(on, deltas))
    /\ tk' = [tick EXCEPT !.ops = @ \o Outgoing(on, deltas), !.sentOn = sock.readyState]
    /\ pc' = "sleep"

\* streamHandler from the moment config.url resolves (to u) to its next
\* suspension point: the close check, then either the construction of a new
\* socket (and the wait for it to open) or the sending of the messages.
UrlResolved(u) ==
    /\ UNCHANGED outsideTransport
    /\ pc = "url"
    /\ LET urlChanged == currentUrl # u
           unresponsive == connectionUnresponsive
           doClose == ShouldClose(connectionClosed, urlChanged, unresponsive)
           closed == connectionClosed \/ doClose
           deltas == IF doClose
                     THEN [subscriptions EXCEPT !.new = NewAfterClose(subscriptions)]
                     ELSE subscriptions
           sock == IF doClose THEN CloseSocket(wsConnection) ELSE wsConnection
           tick == [tk EXCEPT
                      !.evalOpen = ~connectionClosed,
                      !.evalUnresp = ClaimUnresponsive,
                      !.urlChanged = urlChanged,
                      !.url = u,
                      !.ops = IF doClose
                              THEN Append(@, [op |-> "close", kind |-> "-", p |-> "-",
                                              on |-> "old"])
                              ELSE @]
       IN /\ subscriptions' = deltas
          /\ IF ShouldOpen(closed)
             THEN /\ wsConnection' = NewSocket
                  /\ old' = Replaced(sock)
                  /\ wsUrl' = u
                  /\ currentUrl' = UrlOfNewSocket(u)
                  /\ sinceStreamEstablished' = 0
                  /\ pc' = "open"
                  /\ tk' = [tick EXCEPT
                              !.ops = Append(@, [op |-> "open", kind |-> "-", p |-> "-",
                                                 on |-> "new"])]
             ELSE /\ SendAndSleep(sock, "old", deltas, tick)
                  /\ UNCHANGED <<old, wsUrl, currentUrl, sinceStreamEstablished>>
    /\ last' = NoEvent
    /\ UNCHANGED <<sinceLastMessageReceived, sinceConnectionOpened, desiredSubscriptions,
                   lastKnown, builders, wsConnectionActive, ticks>>

\* `await sleep(BACKGROUND_EXECUTE_MS_WS)` ends and streamHandler returns;
\* section 4.6: lastKnown becomes the desired set of this tick.
SleepDone ==
    /\ UNCHANGED outsideTransport
    /\ pc = "sleep"
    /\ pc' = "idle"
    /\ lastKnown' = subscriptions.desired
    /\ subscriptions' = NoDeltas
    /\ tk' = [NoTick EXCEPT !.outcome = "completed"]
    /\ last' = [NoEvent EXCEPT !.type = "tickEnd"]
    /\ UNCHANGED <<wsConnection, wsUrl, old, currentUrl, sinceLastMessageReceived,
                   sinceConnectionOpened, sinceStreamEstablished,
                   desiredSubscriptions, builders, wsConnectionActive, ticks>>

\* ------------------------------------------------------------ socket events

\* The sockets events can come from: this.wsConnection (cur) and the ones
\* it held before.
Sources ==
    {[cur |-> TRUE, sock |-> wsConnection]}
        \cup {[cur |-> FALSE, sock |-> o] : o \in BagToSet(old)}

\* The event's socket becomes sock.
Becomes(e, sock) ==
    IF e.cur
    THEN /\ wsConnection' = sock
         /\ old' = old
    ELSE /\ wsConnection' = wsConnection
         /\ old' = (old (-) SetToBag({e.sock}))
                       (+) (IF AtRest(sock) THEN EmptyBag ELSE SetToBag({sock}))

\* Whether the promise of establishWsConnection for the event's socket is
\* pending: the tick that constructed it is still awaiting it.
Pending(e) == e.cur /\ pc = "open"

\* The socket's open event: the open handler starts and awaits
\* config.handlers.open.
OpenEvent(e) ==
    /\ UNCHANGED outsideTransport
    /\ e.sock.readyState = "CONNECTING"
    /\ Becomes(e, [e.sock EXCEPT !.readyState = "OPEN", !.handler = "running"])
    /\ last' = NoEvent
    /\ UNCHANGED <<wsUrl, currentUrl, sinceLastMessageReceived, sinceConnectionOpened,
                   sinceStreamEstablished, desiredSubscriptions, lastKnown, builders,
                   wsConnectionActive, pc, subscriptions, ticks, tk>>

\* config.handlers.open has resolved: the gauge is incremented and the
\* promise resolved; a tick awaiting it stamps connectionOpenedAt, sends its
\* messages and sleeps.
OpenHandlerResolved(e) ==
    /\ UNCHANGED outsideTransport
    /\ e.sock.handler = "running"
    /\ wsConnectionActive' = wsConnectionActive + 1
    /\ last' = NoEvent
    /\ IF Pending(e)
       THEN /\ sinceConnectionOpened' = 0
            /\ SendAndSleep([e.sock EXCEPT !.handler = "none"], "new", subscriptions, tk)
            /\ UNCHANGED old
       ELSE /\ Becomes(e, [e.sock EXCEPT !.handler = "none"])
            /\ UNCHANGED <<sinceConnectionOpened, pc, tk>>
    /\ UNCHANGED <<wsUrl, currentUrl, sinceLastMessageReceived, sinceStreamEstablished,
                   desiredSubscriptions, lastKnown, builders, subscriptions, ticks>>

\* A catch that ends whatever tick is running.
RejectRunningTick(e, why) ==
    /\ pc' = "idle"
    /\ tk' = IF pc # "idle" THEN [NoTick EXCEPT !.outcome = why] ELSE tk
    /\ subscriptions' = IF pc # "idle" THEN NoDeltas ELSE subscriptions

\* rejectionHandler's catch: reject(e).  A pending establishWsConnection
\* throws out of streamHandler and the tick ends, lastKnown untouched; a
\* settled promise ignores it.
Reject(e, why) ==
    /\ pc' = IF Pending(e) THEN "idle" ELSE pc
    /\ tk' = IF Pending(e) THEN [NoTick EXCEPT !.outcome = why] ELSE tk
    /\ subscriptions' = IF Pending(e) THEN NoDeltas ELSE subscriptions

\* config.handlers.open has rejected.
OpenHandlerRejected(e) ==
    /\ UNCHANGED outsideTransport
    /\ e.sock.handler = "running"
    /\ Becomes(e, [e.sock EXCEPT !.handler = "none"])
    /\ Reject(e, "openRejected")
    /\ last' = [NoEvent EXCEPT !.type = IF Pending(e) THEN "tickEnd" ELSE "none"]
    /\ UNCHANGED <<wsUrl, currentUrl, sinceLastMessageReceived, sinceConnectionOpened,
                   sinceStreamEstablished, desiredSubscriptions, lastKnown, builders,
                   wsConnectionActive, ticks>>

\* The socket's message event, config.handlers.message doing r with it.
MessageEvent(e, r) ==
    /\ UNCHANGED outsideTransport
    /\ e.sock.readyState \in {"OPEN", "CLOSING"}
    /\ last' = [type |-> "message", cur |-> e.cur, result |-> r, wrote |-> IsArray(r),
                pdse |-> Stamped(r)]
    /\ sinceLastMessageReceived' = IF IsArray(r) THEN 0 ELSE sinceLastMessageReceived
    /\ IF Throws(r) THEN Reject(e, "messageThrew") ELSE UNCHANGED <<pc, tk, subscriptions>>
    /\ UNCHANGED <<wsConnection, wsUrl, old, currentUrl, sinceConnectionOpened,
                   sinceStreamEstablished, desiredSubscriptions, lastKnown, builders,
                   wsConnectionActive, ticks>>

\* An error handler that closes the socket it is told about.
ErrorEventCloses(e) ==
    /\ UNCHANGED outsideTransport
    /\ e.sock.readyState \in {"CONNECTING", "OPEN", "CLOSING"}
    /\ Becomes(e, CloseSocket(e.sock))
    /\ last' = [NoEvent EXCEPT !.type = "error", !.cur = e.cur]
    /\ UNCHANGED <<wsUrl, currentUrl, sinceLastMessageReceived, sinceConnectionOpened,
                   sinceStreamEstablished, desiredSubscriptions, lastKnown, builders,
                   wsConnectionActive, pc, subscriptions, ticks, tk>>

\* The socket's error event: logged and counted.
ErrorEvent(e) ==
    /\ UNCHANGED outsideTransport
    /\ e.sock.readyState \in {"CONNECTING", "OPEN", "CLOSING"}
    /\ last' = [NoEvent EXCEPT !.type = "error", !.cur = e.cur]
    /\ UNCHANGED <<wsConnection, wsUrl, old, currentUrl, sinceLastMessageReceived,
                   sinceConnectionOpened, sinceStreamEstablished, desiredSubscriptions,
                   lastKnown, builders, wsConnectionActive, pc, subscriptions, ticks, tk>>

\* The socket's close event (the peer closed it, this.wsConnection.close()
\* completed, or the connection attempt failed): the gauge is decremented.
CloseEvent(e) ==
    /\ UNCHANGED outsideTransport
    /\ e.sock.readyState \in {"CONNECTING", "OPEN", "CLOSING"}
    /\ Becomes(e, [e.sock EXCEPT !.readyState = "CLOSED", !.active = {}])
    /\ wsConnectionActive' = wsConnectionActive - 1
    /\ last' = NoEvent
    /\ UNCHANGED <<wsUrl, currentUrl, sinceLastMessageReceived, sinceConnectionOpened,
                   sinceStreamEstablished, desiredSubscriptions, lastKnown, builders,
                   pc, subscriptions, ticks, tk>>

\* One clock step passes.  The tick reads the clock when config.url resolves
\* and when the open handler resolves; a clock step taken while it awaits
\* config.url or sleeps commutes with every step up to the next reading, so
\* time is let pass between ticks and while a tick waits for its socket.
Older(t) == Min(t + 1, LongAgo)

Advance ==
    /\ UNCHANGED outsideTransport
    /\ pc \in {"idle", "open"}
    /\ sinceLastMessageReceived' = Older(sinceLastMessageReceived)
    /\ sinceConnectionOpened' = Older(sinceConnectionOpened)
    /\ sinceStreamEstablished' = Older(sinceStreamEstablished)
    /\ last' = NoEvent
    /\ UNCHANGED <<wsConnection, wsUrl, old, currentUrl, desiredSubscriptions, lastKnown,
                   builders, wsConnectionActive, pc, subscriptions, ticks, tk>>

Next ==
    \/ \E d \in SUBSET Params : BackgroundExecute(d)
    \/ \E u \in Urls : UrlResolved(u)
    \/ SleepDone
    \/ \E e \in Sources : OpenEvent(e)
    \/ \E e \in Sources : OpenHandlerResolved(e)
    \/ \E e \in Sources : OpenHandlerRejected(e)
    \/ \E e \in Sources, r \in MessageOutcomes : MessageEvent(e, r)
    \/ \E e \in Sources : ErrorEvent(e)
    \/ \E e \in Sources : CloseEvent(e)
    \/ Advance

\* ----------------------------------------------------------- AdapterEndpoint

\* JavaScript values: undefined, strings (sequences of characters), and what
\* an object inherits from Object.prototype.
Undefined == [type |-> "undefined"]
Str(s) == [type |-> "string", chars |-> s]
Inherited == [type |-> "function"]
\* A plain object whose own properties are those of the function props.
Object(props) == [type |-> "object", props |-> props]

\* Truthiness: undefined and the empty string are falsy.
Truthy(v) == IF v.type = "string" THEN v.chars # <<>> ELSE v.type # "undefined"

\* `a || b`
Or(a, b) == IF Truthy(a) THEN a ELSE b

UpperCase == <<"A", "B", "C", "D", "E", "F", "G", "H", "I", "J", "K", "L", "M",
               "N", "O", "P", "Q", "R", "S", "T", "U", "V", "W", "X", "Y", "Z">>
LowerCase == <<"a", "b", "c", "d", "e", "f", "g", "h", "i", "j", "k", "l", "m",
               "n", "o", "p", "q", "r", "s", "t", "u", "v", "w", "x", "y", "z">>

\* String.prototype.toLowerCase
toLowerCaseChar(c) ==
    IF \E i \in 1..Len(UpperCase) : UpperCase[i] = c
    THEN LowerCase[CHOOSE i \in 1..Len(UpperCase) : UpperCase[i] = c]
    ELSE c
toLowerCase(s) == [i \in 1..Len(s) |-> toLowerCaseChar(s[i])]

\* The properties every plain object inherits, as far as the inputs spell
\* them: "constructor" and "__proto__".
ObjectPrototypeKeys ==
    { <<"c", "o", "n", "s", "t", "r", "u", "c", "t", "o", "r">>,
      <<"_", "_", "p", "r", "o", "t", "o", "_", "_">> }

\* `obj[key]` on a plain object (a function from its own keys): an own
\* property, else an inherited one, else undefined.
Get(obj, key) ==
    IF key \in DOMAIN obj THEN obj[key]
    ELSE IF key \in ObjectPrototypeKeys THEN Inherited
    ELSE Undefined

\* `v?.[key]`, v being undefined or a plain object.
GetOptional(v, key) == IF v.type = "object" THEN Get(v.props, key) ELSE Undefined

DEFAULT_TRANSPORT_NAME ==
    <<"d", "e", "f", "a", "u", "l", "t", "_", "s", "i", "n", "g", "l", "e", "_",
      "t", "r", "a", "n", "s", "p", "o", "r", "t">>

\* A Transport instance, told apart by the name it was registered under.
Transport(k) == [type |-> "transport", registeredAs |-> k]

\* Transport names an endpoint may be constructed with: two well-formed ones,
\* one with an upper-case letter, the empty one, one with a digit.
KeyPool == { <<"w", "s">>, <<"r", "e", "s", "t">>, <<"w", "S">>, <<>>, <<"w", "1">> }

\* What customRouter may return and what the request may carry as
\* data.transport.
RouterValues ==
    { Undefined, Str(<<>>), Str(<<"w", "s">>), Str(<<"W", "S">>), Str(<<"r", "e", "s", "t">>),
      Str(<<"x">>), Str(<<"c", "o", "n", "s", "t", "r", "u", "c", "t", "o", "r">>) }

\* What defaultTransport may be.
DefaultTransports == { Undefined, Str(<<"w", "s">>), Str(<<"R", "e", "s", "t">>) }

EndpointNames == { <<"P", "x">>, <<"p", "x">> }

\* The endpoint's static overrides: none, or E -> W.
StaticOverrides == { Undefined, Object([b \in {<<"E">>} |-> Str(<<"W">>)]) }

\* Transforms registered besides symbolOverrider.
ExtraTransforms == { <<>>, <<"t1", "t2">> }

\* AdapterEndpointParams: with `transport` or with a `transports` map.
EndpointParams ==
    [form : {"transport", "transports"},
     keys : (SUBSET KeyPool) \ {{}},
     customRouter : BOOLEAN,
     defaultTransport : DefaultTransports,
     name : EndpointNames,
     overrides : StaticOverrides,
     requestTransforms : ExtraTransforms]

\* A name test that looks at the first character only.
StartsLowercase(name) ==
    /\ Len(name) > 0
    /\ \E j \in 1..Len(LowerCase) : LowerCase[j] = name[1]

\* `/^[a-z]+$/.test(transportName)`
IsLowercaseWord(name) ==
    /\ Len(name) > 0
    /\ \A i \in 1..Len(name) : \E j \in 1..Len(LowerCase) : LowerCase[j] = name[i]

FailedEndpoint == [state |-> "failed"]

\* new AdapterEndpoint(params): throws when a name of the transports map
\* fails the test; a single transport is registered as DEFAULT_TRANSPORT_NAME.
AdapterEndpoint(params) ==
    IF params.form = "transports" /\ \E k \in params.keys : ~IsLowercaseWord(k)
    THEN FailedEndpoint
    ELSE [state |-> "built",
          form |-> params.form,
          name |-> params.name,
          transports |-> IF params.form = "transports"
                         THEN [k \in params.keys |-> Transport(k)]
                         ELSE [k \in {DEFAULT_TRANSPORT_NAME} |-> Transport(k)],
          customRouter |-> params.form = "transports" /\ params.customRouter,
          defaultTransport |-> IF params.form = "transports"
                               THEN params.defaultTransport ELSE Undefined,
          overrides |-> params.overrides,
          requestTransforms |-> <<"symbolOverrider">> \o params.requestTransforms]

Return(name) == [kind |-> "return", name |-> name, statusCode |-> 0]
Throw(statusCode) == [kind |-> "throw", name |-> <<>>, statusCode |-> statusCode]

\* defaultRouter: `rawRequestBody.data?.transport`
defaultRouter(body) == IF body.data = Undefined THEN Undefined ELSE body.data.transport

\* A resolution that asks the request before the custom router.
RequestFirst(ep, custom, body) ==
    Or(Or(defaultRouter(body), IF ep.customRouter THEN custom ELSE Undefined),
       ep.defaultTransport)

\* `(this.customRouter && this.customRouter(req, adapterConfig)) ||
\*  this.defaultRouter(req) || this.defaultTransport`, custom being what the
\* custom router returns for the request.
rawTransportName(ep, custom, body) ==
    Or(Or(IF ep.customRouter THEN custom ELSE Undefined, defaultRouter(body)),
       ep.defaultTransport)

getTransportNameForRequest(ep, custom, body) ==
    IF Truthy(Get(ep.transports, DEFAULT_TRANSPORT_NAME))
    THEN Return(DEFAULT_TRANSPORT_NAME)
    ELSE IF ~Truthy(rawTransportName(ep, custom, body))
    THEN Throw(400)
    ELSE LET transportName == toLowerCase(rawTransportName(ep, custom, body).chars)
         IN IF ~Truthy(Get(ep.transports, transportName))
            THEN Throw(400)
            ELSE Return(transportName)

\* What a request may carry as data.overrides: nothing; an override E -> X
\* for this endpoint, under its lower-case name or under another spelling;
\* an override of E by the empty string; no override for any symbol.
RequestOverrides ==
    { Undefined,
      Object([n \in {<<"p", "x">>} |-> Object([b \in {<<"E">>} |-> Str(<<"X">>)])]),
      Object([n \in {<<"P", "x">>} |-> Object([b \in {<<"E">>} |-> Str(<<"X">>)])]),
      Object([n \in {<<"p", "x">>} |-> Object([b \in {<<"E">>} |-> Str(<<>>)])]),
      Object([n \in {<<"p", "x">>} |-> Object(<<>>)]) }

\* The base symbols a request may ask for.
Bases == { Str(<<"E">>), Str(<<"B">>), Str(<<"c", "o", "n", "s", "t", "r", "u", "c", "t", "o", "r">>) }

\* Requests: the raw body, the validated requestContext.data, and the
\* transforms that have seen the request, with the base each of them found.
RoutingBodies ==
    {[data |-> Undefined]}
        \cup {[data |-> [transport |-> v, overrides |-> Undefined]] : v \in RouterValues}
TransformRequests ==
    {[body |-> [data |-> [transport |-> Undefined, overrides |-> o]],
      data |-> [base |-> b, quote |-> Str(<<"U">>)],
      log |-> <<>>] : o \in RequestOverrides, b \in Bases}
        \cup {[body |-> [data |-> Undefined],
               data |-> [base |-> b, quote |-> Str(<<"U">>)],
               log |-> <<>>] : b \in Bases}

Seen(req, transform) ==
    [req EXCEPT !.log = Append(@, [transform |-> transform, base |-> req.data.base])]

\* `rawRequestBody.data?.overrides?.[this.name.toLowerCase()]`
requestOverrides(ep, req) ==
    IF req.body.data = Undefined THEN Undefined
    ELSE GetOptional(req.body.data.overrides, toLowerCase(ep.name))

symbolOverrider(ep, req) ==
    LET base == req.data.base.chars
    IN IF Truthy(GetOptional(requestOverrides(ep, req), base))
       THEN [Seen(req, "symbolOverrider")
               EXCEPT !.data.base = GetOptional(requestOverrides(ep, req), base)]
       ELSE IF Truthy(GetOptional(ep.overrides, base))
       THEN [Seen(req, "symbolOverrider") EXCEPT !.data.base = GetOptional(ep.overrides, base)]
       ELSE Seen(req, "symbolOverrider")

\* One transform applied to the request; the transforms an adapter registers
\* are taken to look at the request without changing it.
ApplyTransform(ep, transform, req) ==
    IF transform = "symbolOverrider" THEN symbolOverrider(ep, req) ELSE Seen(req, transform)

\* `for (const transform of this.requestTransforms) transform(req)`
RECURSIVE ApplyAll(_, _, _)
ApplyAll(ep, transforms, req) ==
    IF transforms = <<>> THEN req
    ELSE ApplyAll(ep, Tail(transforms), ApplyTransform(ep, Head(transforms), req))

runRequestTransforms(ep, req) == ApplyAll(ep, ep.requestTransforms, req)

\* What the endpoint's steps leave alone.
outsideEndpoint == <<vars, subscriptionSetVars, cacheVars, validatorVars, handled, metricsVars>>

Construct(params) ==
    /\ endpoint = NoEndpointYet
    /\ endpoint' = [form |-> params.form, keys |-> params.keys,
                    object |-> AdapterEndpoint(params)]
    /\ UNCHANGED <<routed, transformed>>
    /\ UNCHANGED outsideEndpoint

\* Neither call changes the endpoint, so one call on every endpoint shows
\* all there is to see.
Route(custom, body) ==
    /\ endpoint.object.state = "built"
    /\ routed = NoRoute /\ transformed = NoTransform
    /\ routed' = [custom |-> custom, body |-> body,
                  result |-> getTransportNameForRequest(endpoint.object, custom, body)]
    /\ UNCHANGED transformed
    /\ UNCHANGED endpoint
    /\ UNCHANGED outsideEndpoint

Transform(req) ==
    /\ endpoint.object.state = "built"
    /\ routed = NoRoute /\ transformed = NoTransform
    /\ transformed' = [done |-> TRUE, before |-> req,
                       after |-> runRequestTransforms(endpoint.object, req)]
    /\ UNCHANGED routed
    /\ UNCHANGED endpoint
    /\ UNCHANGED outsideEndpoint

EndpointNext ==
    \/ \E params \in EndpointParams : Construct(params)
    \/ \E custom \in RouterValues, body \in RoutingBodies : Route(custom, body)
    \/ \E req \in TransformRequests : Transform(req)

\* ---------------------------------------------------------- subscription sets

\* The keys, values and TTLs of the add calls, the last instant of the clock,
\* the number of add calls and the capacity of the local set.
Num(n) == [type |-> "number", n |-> n]
SetKeys == { <<"j">>, <<"k">>, <<"k", ">", "1">> }
SetValues == { Num(2), Str(<<"\"">>), Str(<<">">>) }
Ttls == {1, 2}
MaxNow == 2
MaxAdds == 3
CACHE_MAX_SUBSCRIPTIONS == 2

DELIMITER == ">"

\* JSON.stringify and JSON.parse, on non-negative integers and strings.
Digits == <<"0", "1", "2", "3", "4", "5", "6", "7", "8", "9">>
IsDigit(c) == \E i \in 1..Len(Digits) : Digits[i] = c
DigitValue(c) == (CHOOSE i \in 1..Len(Digits) : Digits[i] = c) - 1

RECURSIVE NumberText(_)
NumberText(n) ==
    IF n < 10 THEN <<Digits[n + 1]>>
    ELSE NumberText(n \div 10) \o <<Digits[(n % 10) + 1]>>

RECURSIVE Escaped(_)
Escaped(chars) ==
    IF chars = <<>> THEN <<>>
    ELSE (IF Head(chars) \in {"\"", "\\"} THEN <<"\\", Head(chars)>> ELSE <<Head(chars)>>)
             \o Escaped(Tail(chars))

\* A stringify that leaves the characters of a string as they are.
JSONstringifyUnescaped(value) ==
    IF value.type = "number" THEN NumberText(value.n)
    ELSE <<"\"">> \o value.chars \o <<"\"">>

JSONstringify(value) ==
    IF value.type = "number" THEN NumberText(value.n)
    ELSE <<"\"">> \o Escaped(value.chars) \o <<"\"">>

SyntaxError == [type |-> "SyntaxError"]

IsNumberText(text) ==
    /\ Len(text) > 0
    /\ \A i \in 1..Len(text) : IsDigit(text[i])
    /\ Len(text) > 1 => text[1] # "0"

RECURSIVE NumberValue(_)
NumberValue(text) ==
    IF Len(text) = 1 THEN DigitValue(text[1])
    ELSE 10 * NumberValue(SubSeq(text, 1, Len(text) - 1)) + DigitValue(text[Len(text)])

RECURSIVE WellEscaped(_)
WellEscaped(chars) ==
    \/ chars = <<>>
    \/ /\ Head(chars) = "\\"
       /\ Len(chars) >= 2
       /\ chars[2] \in {"\"", "\\"}
       /\ WellEscaped(Tail(Tail(chars)))
    \/ /\ Head(chars) \notin {"\"", "\\"}
       /\ WellEscaped(Tail(chars))

RECURSIVE Unescaped(_)
Unescaped(chars) ==
    IF chars = <<>> THEN <<>>
    ELSE IF Head(chars) = "\\" THEN <<chars[2]>> \o Unescaped(Tail(Tail(chars)))
    ELSE <<Head(chars)>> \o Unescaped(Tail(chars))

JSONparse(text) ==
    IF IsNumberText(text) THEN Num(NumberValue(text))
    ELSE IF /\ Len(text) >= 2
            /\ text[1] = "\"" /\ text[Len(text)] = "\""
            /\ WellEscaped(SubSeq(text, 2, Len(text) - 1))
    THEN Str(Unescaped(SubSeq(text, 2, Len(text) - 1)))
    ELSE SyntaxError

\* `entry.split(DELIMITER)`
RECURSIVE split(_, _)
split(entry, delimiter) ==
    IF \A i \in 1..Len(entry) : entry[i] # delimiter THEN <<entry>>
    ELSE LET first == CHOOSE i \in 1..Len(entry) :
                          entry[i] = delimiter /\ \A j \in 1..(i - 1) : entry[j] # delimiter
         IN <<SubSeq(entry, 1, first - 1)>>
                \o split(SubSeq(entry, first + 1, Len(entry)), delimiter)

\* `${key}${DELIMITER}${JSON.stringify(value)}`
storedValue(key, value) == key \o <<DELIMITER>> \o JSONstringify(value)

\* `JSON.parse(entry.split(DELIMITER)[1])`; JSON.parse(undefined) throws too.
Decoded(entry) ==
    LET pieces == split(entry, DELIMITER)
    IN IF Len(pieces) < 2 THEN SyntaxError ELSE JSONparse(pieces[2])

\* The sorted set in Redis: members with their scores.  ZADD sets the score
\* of a member, ZREMRANGEBYSCORE removes the members with min <= score <= max
\* (min is -inf here), ZRANGE 0 -1 lists all members by score, members of the
\* same score in the order of their bytes.
zadd(zset, score, member) ==
    {e \in zset : e.member # member} \cup {[member |-> member, score |-> score]}

\* A removal that spares the members whose score is max.
zremrangebyscoreExclusive(zset, max) == {e \in zset : ~(e.score < max)}

zremrangebyscore(zset, max) == {e \in zset : ~(e.score <= max)}

ByteOrder == <<"\"", "1", "2", ">", "\\", "j", "k">>
Byte(c) == CHOOSE i \in 1..Len(ByteOrder) : ByteOrder[i] = c

RECURSIVE BytesBefore(_, _)
BytesBefore(a, b) ==
    IF a = <<>> THEN b # <<>>
    ELSE IF b = <<>> THEN FALSE
    ELSE IF Head(a) # Head(b) THEN Byte(Head(a)) < Byte(Head(b))
    ELSE BytesBefore(Tail(a), Tail(b))

RankedBefore(e, f) ==
    e.score < f.score \/ (e.score = f.score /\ BytesBefore(e.member, f.member))

RECURSIVE zrange(_)
zrange(zset) ==
    IF zset = {} THEN <<>>
    ELSE LET first == CHOOSE e \in zset : \A f \in zset \ {e} : RankedBefore(e, f)
         IN <<first>> \o zrange(zset \ {first})

\* How an async call ends.
Resolves(v) == [kind |-> "resolves", value |-> v]
Rejects(e) == [kind |-> "rejects", error |-> e]

\* `validEntries.forEach(... parsedRequests.push(JSON.parse(...)))`
parsedRequests(validEntries) ==
    LET parsed == [i \in 1..Len(validEntries) |-> Decoded(validEntries[i].member)]
    IN IF \E i \in 1..Len(parsed) : parsed[i].type = "SyntaxError"
       THEN Rejects(SyntaxError)
       ELSE Resolves(parsed)

\* The local set of section 4.2: entries in insertion order, each with its
\* absolute expiry; an entry whose expiry is earlier than now is invisible.
Expired(e, t) == e.expiresAt < t

\* An eviction that drops the newest entry.
EvictNewest(entries) == SubSeq(entries, 1, Len(entries) - 1)

\* On overflow the oldest entry by insertion order goes.
EvictOldest(entries) == Tail(entries)

\* add: a duplicate key refreshes its entry where it stands.
LocalAdd(set, key, value, ttl, t) ==
    LET e == [key |-> key, value |-> value, expiresAt |-> t + ttl]
        es == set.entries
    IN IF \E i \in 1..Len(es) : es[i].key = key
       THEN [set EXCEPT !.entries = [i \in 1..Len(es) |-> IF es[i].key = key THEN e ELSE es[i]]]
       ELSE IF Len(es) >= set.capacity
       THEN [set EXCEPT !.entries = Append(EvictOldest(es), e)]
       ELSE [set EXCEPT !.entries = Append(es, e)]

Live(set, t) == SelectSeq(set.entries, LAMBDA e : ~Expired(e, t))

LocalGet(set, key, t) ==
    LET live == Live(set, t)
    IN IF \E i \in 1..Len(live) : live[i].key = key
       THEN live[CHOOSE i \in 1..Len(live) : live[i].key = key].value
       ELSE Undefined

LocalGetAll(set, t) ==
    LET live == Live(set, t)
    IN [i \in 1..Len(live) |-> live[i].value]

\* What the subscription sets' steps leave alone.
outsideSubscriptionSet == <<vars, endpointVars, cacheVars, validatorVars, handled, metricsVars>>

CacheTypes == {"local", "redis"}

\* What a factory leaves behind when it throws instead of returning.
Thrown == [type |-> "error"]

\* SubscriptionSetFactory.buildSet, for the CACHE_TYPE of the configuration
\* and with or without the Redis client the factory was constructed with.
buildSet(cacheType, redisClient) ==
    IF cacheType = "local"
    THEN [type |-> "local", capacity |-> CACHE_MAX_SUBSCRIPTIONS, entries |-> <<>>]
    ELSE IF ~redisClient
         THEN Thrown
         ELSE [type |-> "redis", zset |-> {}]

BuildSet(cacheType, redisClient) ==
    /\ subscriptionSet = NoSet
    /\ subscriptionSet' = buildSet(cacheType, redisClient)
    /\ UNCHANGED <<now, getAllCall, added, answer>>
    /\ UNCHANGED outsideSubscriptionSet

\* add(key, value, ttl).  The Redis set computes Date.now() + ttl and issues
\* ZADD in one go; the commands of one client reach Redis in the order issued.
Add(key, value, ttl) ==
    /\ subscriptionSet.type \in CacheTypes
    /\ Len(added) < MaxAdds
    /\ subscriptionSet' =
           IF subscriptionSet.type = "local"
           THEN LocalAdd(subscriptionSet, key, value, ttl, now)
           ELSE [subscriptionSet EXCEPT !.zset = zadd(@, now + ttl, storedValue(key, value))]
    /\ added' = Append(added, [key |-> key, value |-> value, expiresAt |-> now + ttl])
    /\ answer' = NoAnswer
    /\ UNCHANGED <<now, getAllCall>>
    /\ UNCHANGED outsideSubscriptionSet

\* get(key) of the local set.
LocalGetCall(key) ==
    /\ subscriptionSet.type = "local"
    /\ answer' = [op |-> "get", key |-> key, at |-> now, held |-> subscriptionSet.entries,
                  result |-> LocalGet(subscriptionSet, key, now)]
    /\ UNCHANGED <<now, subscriptionSet, getAllCall, added>>
    /\ UNCHANGED outsideSubscriptionSet

\* getAll() of the local set.
LocalGetAllCall ==
    /\ subscriptionSet.type = "local"
    /\ answer' = [op |-> "getAll", at |-> now, held |-> subscriptionSet.entries,
                  result |-> Resolves(LocalGetAll(subscriptionSet, now))]
    /\ UNCHANGED <<now, subscriptionSet, getAllCall, added>>
    /\ UNCHANGED outsideSubscriptionSet

\* RedisSubscriptionSet.getAll, up to its first await: ZREMRANGEBYSCORE with
\* Date.now() as the upper end.
GetAllRemove ==
    /\ subscriptionSet.type = "redis"
    /\ getAllCall = NoGetAll
    /\ getAllCall' = [pc |-> "removed", at |-> now, before |-> subscriptionSet.zset,
                       after |-> zremrangebyscore(subscriptionSet.zset, now)]
    /\ subscriptionSet' = [subscriptionSet EXCEPT !.zset = zremrangebyscore(@, now)]
    /\ answer' = NoAnswer
    /\ UNCHANGED <<now, added>>
    /\ UNCHANGED outsideSubscriptionSet

\* RedisSubscriptionSet.getAll, the rest: ZRANGE 0 -1 and the decoding of
\* what it lists.
GetAllRange ==
    /\ subscriptionSet.type = "redis"
    /\ getAllCall # NoGetAll
    /\ answer' = [op |-> "getAll", at |-> getAllCall.at, before |-> getAllCall.before,
                  after |-> getAllCall.after,
                  held |-> subscriptionSet.zset,
                  validEntries |-> zrange(subscriptionSet.zset),
                  result |-> parsedRequests(zrange(subscriptionSet.zset))]
    /\ getAllCall' = NoGetAll
    /\ UNCHANGED <<now, subscriptionSet, added>>
    /\ UNCHANGED outsideSubscriptionSet

\* A millisecond passes.
ClockTick ==
    /\ now < MaxNow
    /\ now' = now + 1
    /\ answer' = NoAnswer
    /\ UNCHANGED <<subscriptionSet, getAllCall, added>>
    /\ UNCHANGED outsideSubscriptionSet

SubscriptionSetNext ==
    \/ \E cacheType \in CacheTypes, redisClient \in BOOLEAN : BuildSet(cacheType, redisClient)
    \/ \E key \in SetKeys, value \in SetValues, ttl \in Ttls : Add(key, value, ttl)
    \/ \E key \in SetKeys : LocalGetCall(key)
    \/ LocalGetAllCall
    \/ GetAllRemove
    \/ GetAllRange
    \/ ClockTick

\* ------------------------------------------------------------------ caches

\* How many entries the local cache may hold.
CacheCapacity == 2

\* What get answers.
Miss == [kind |-> "miss"]
Hit(value) == [kind |-> "hit", value |-> value]

\* new LocalCache(): no entries; entries holds the least recently used first.
LocalCache == [type |-> "local", capacity |-> CacheCapacity, entries |-> <<>>]
\* new RedisCache(redisClient): the keys of this adapter in the store.
RedisCache == [type |-> "redis", store |-> {}]

\* The CACHE_TYPE values buildCache may be called with.
FactoryCacheTypes == CacheTypes \cup {"other"}

\* CacheFactory.buildCache without the check of the client.
buildCacheUnchecked(cacheType, redisClient) ==
    CASE cacheType = "local" -> LocalCache
      [] cacheType = "redis" -> RedisCache
      [] OTHER -> [type |-> "undefined"]

\* CacheFactory.buildCache: the switch has no default case, and what is
\* neither 'local' nor 'redis' falls out of it, returning undefined.
buildCache(cacheType, redisClient) ==
    CASE cacheType = "local" -> LocalCache
      [] cacheType = "redis" -> IF ~redisClient THEN Thrown ELSE RedisCache
      [] OTHER -> [type |-> "undefined"]

\* An entry written at t0 with TTL ttl has expiresAt = t0 + ttl; the mutant
\* lets it live one millisecond longer.
CacheExpiredLate(e, t) == t > e.expiresAt

CacheExpired(e, t) == t >= e.expiresAt

Holds(entries, key) == \E i \in 1..Len(entries) : entries[i].key = key
EntryOf(entries, key) == entries[CHOOSE i \in 1..Len(entries) : entries[i].key = key]
WithoutKey(entries, key) == SelectSeq(entries, LAMBDA e : e.key # key)

EvictMostRecentlyUsed(entries) == SubSeq(entries, 1, Len(entries) - 1)

EvictLeastRecentlyUsed(entries) == Tail(entries)

\* A set that leaves the entry of a key already held as it is.
LocalCacheSetStale(c, key, value, ttl, t) ==
    LET entry == [key |-> key, value |-> value, expiresAt |-> t + ttl]
    IN IF Holds(c.entries, key)
       THEN c
       ELSE [c EXCEPT !.entries =
                Append(IF Len(@) >= c.capacity THEN EvictLeastRecentlyUsed(@) ELSE @, entry)]

\* LocalCache.set: a key already held is overwritten in place of its old
\* entry; a new key evicts the least recently used entry if size >= capacity.
\* Either way the entry written becomes the most recently used.
LocalCacheSet(c, key, value, ttl, t) ==
    LET entry == [key |-> key, value |-> value, expiresAt |-> t + ttl]
        kept == IF Holds(c.entries, key) THEN WithoutKey(c.entries, key)
                ELSE IF Len(c.entries) >= c.capacity THEN EvictLeastRecentlyUsed(c.entries)
                ELSE c.entries
    IN [c EXCEPT !.entries = Append(kept, entry)]

\* LocalCache.get: what it returns ...
LocalCacheGet(c, key, t) ==
    IF Holds(c.entries, key) /\ ~CacheExpired(EntryOf(c.entries, key), t)
    THEN Hit(EntryOf(c.entries, key).value)
    ELSE Miss

\* ... and what it leaves: an expired entry is deleted, a live one becomes
\* the most recently used.
LocalCacheAfterGet(c, key, t) ==
    IF ~Holds(c.entries, key)
    THEN c
    ELSE IF CacheExpired(EntryOf(c.entries, key), t)
         THEN [c EXCEPT !.entries = WithoutKey(@, key)]
         ELSE [c EXCEPT !.entries = Append(WithoutKey(@, key), EntryOf(c.entries, key))]

LocalCacheDelete(c, key) == [c EXCEPT !.entries = WithoutKey(@, key)]

\* RedisCache: SET with a TTL, GET and DEL on the store, which expires a key
\* by itself once its TTL has run out.
RedisCacheSet(c, key, value, ttl, t) ==
    [c EXCEPT !.store = {e \in @ : e.key # key}
                            \cup {[key |-> key, value |-> value, expiresAt |-> t + ttl]}]

RedisCacheGet(c, key, t) ==
    IF \E e \in c.store : e.key = key /\ ~CacheExpired(e, t)
    THEN Hit((CHOOSE e \in c.store : e.key = key).value)
    ELSE Miss

RedisCacheAfterGet(c, key, t) ==
    [c EXCEPT !.store = {e \in @ : ~(e.key = key /\ CacheExpired(e, t))}]

RedisCacheDelete(c, key) == [c EXCEPT !.store = {e \in @ : e.key # key}]

\* The keys a cache holds, expired or not.
HeldKeys(c) ==
    IF c.type = "local" THEN {c.entries[i].key : i \in 1..Len(c.entries)}
    ELSE IF c.type = "redis" THEN {e.key : e \in c.store}
    ELSE {}

\* What the caches' steps leave alone.
outsideCache ==
    <<vars, endpointVars, subscriptionSet, getAllCall, added, answer, validatorVars, handled,
      metricsVars>>

BuildCache(cacheType, redisClient) ==
    /\ cache = NoCache
    /\ cache' = buildCache(cacheType, redisClient)
    /\ UNCHANGED <<now, written, recency, read>>
    /\ UNCHANGED outsideCache

\* set(key, value, ttl).  written and recency keep, for the claims, what
\* became of the last set of each key and the order in which the keys were
\* last used.
CacheSet(key, value, ttl) ==
    /\ cache.type \in CacheTypes
    /\ cache' = IF cache.type = "local"
                THEN LocalCacheSet(cache, key, value, ttl, now)
                ELSE RedisCacheSet(cache, key, value, ttl, now)
    /\ written' = [k \in CacheKeys |->
                      IF k = key
                      THEN [status |-> "set", value |-> value, expiresAt |-> now + ttl,
                            evicted |-> FALSE]
                      ELSE IF k \in HeldKeys(cache) \ HeldKeys(cache')
                           THEN [written[k] EXCEPT !.evicted = TRUE]
                           ELSE written[k]]
    /\ recency' = Append(SelectSeq(recency, LAMBDA k : k # key), key)
    /\ read' = NoRead
    /\ UNCHANGED now
    /\ UNCHANGED outsideCache

\* get(key)
CacheGet(key) ==
    /\ cache.type \in CacheTypes
    /\ LET result == IF cache.type = "local"
                     THEN LocalCacheGet(cache, key, now)
                     ELSE RedisCacheGet(cache, key, now)
       IN /\ read' = [op |-> "get", key |-> key, at |-> now, held |-> cache,
                      result |-> result]
          /\ recency' = IF result = Miss THEN recency
                        ELSE Append(SelectSeq(recency, LAMBDA k : k # key), key)
    /\ cache' = IF cache.type = "local"
                THEN LocalCacheAfterGet(cache, key, now)
                ELSE RedisCacheAfterGet(cache, key, now)
    /\ UNCHANGED <<now, written>>
    /\ UNCHANGED outsideCache

\* delete(key)
CacheDelete(key) ==
    /\ cache.type \in CacheTypes
    /\ cache' = IF cache.type = "local"
                THEN LocalCacheDelete(cache, key)
                ELSE RedisCacheDelete(cache, key)
    /\ written' = [written EXCEPT ![key] = [status |-> "deleted"]]
    /\ recency' = SelectSeq(recency, LAMBDA k : k # key)
    /\ read' = NoRead
    /\ UNCHANGED now
    /\ UNCHANGED outsideCache

CacheNext ==
    \/ \E cacheType \in FactoryCacheTypes, redisClient \in BOOLEAN :
          BuildCache(cacheType, redisClient)
    \/ \E cacheType \in CacheTypes, redisClient \in BOOLEAN : BuildSet(cacheType, redisClient)
    \/ \E key \in CacheKeys, value \in CacheValues, ttl \in Ttls : CacheSet(key, value, ttl)
    \/ \E key \in CacheKeys : CacheGet(key)
    \/ \E key \in CacheKeys : CacheDelete(key)
    \/ ClockTick

\* ------------------------------------------------------------ InputValidator

\* What a parameter's aliases, dependsOn and exclusive may list, and its
\* default.
AliasLists == { <<>>, <<"from">>, <<"base">>, <<"quote">>, <<"from", "from">> }
NameLists == { {}, {"quote"}, {"base"} }
Defaults == { Undefined, Str(<<"E">>) }

\* The descriptors of one parameter: base is of type string, quote of any.
Descriptors(name) ==
    [name : {name},
     type : {IF name = "base" THEN "string" ELSE "any"},
     required : BOOLEAN,
     default : Defaults,
     aliases : AliasLists,
     dependsOn : NameLists,
     exclusive : NameLists]

\* inputParameters, in the order of its keys: base alone, or base and quote.
InputParameters ==
    {<<b>> : b \in Descriptors("base")}
        \cup {<<b, q>> : b \in Descriptors("base"), q \in Descriptors("quote")}

\* The keys a request's data may carry and the values under them.
InputKeys == {"base", "quote", "from"}
InputValues == { Undefined, Str(<<"E">>), Num(1) }
Inputs == [InputKeys -> InputValues]

AdapterInputError(message) == [kind |-> "error", statusCode |-> 400, message |-> message]

\* The parameter names of a schema.
paramNames(inputConfig) == {inputConfig[i].name : i \in 1..Len(inputConfig)}

\* The aliases of all parameters, one after the other.
RECURSIVE AllAliases(_)
AllAliases(inputConfig) ==
    IF inputConfig = <<>> THEN <<>>
    ELSE Head(inputConfig).aliases \o AllAliases(Tail(inputConfig))

\* The names and the aliases of all parameters, one after the other.
RECURSIVE AllNames(_)
AllNames(inputConfig) ==
    IF inputConfig = <<>> THEN <<>>
    ELSE <<Head(inputConfig).name>> \o Head(inputConfig).aliases
             \o AllNames(Tail(inputConfig))

HasDuplicates(names) == \E i, j \in 1..Len(names) : i < j /\ names[i] = names[j]

\* What is wrong with one parameter of the schema, if anything.
ParamError(inputConfig, param) ==
    IF param.required /\ param.default # Undefined
    THEN "can't be required and have default value"
    ELSE IF \E name \in param.dependsOn \cup param.exclusive : name \notin paramNames(inputConfig)
    THEN "Input dependency/exclusive is missing in input schema"
    ELSE "none"

\* The check of the schema the constructor makes: the first parameter with
\* something wrong decides; then the names and aliases are looked through
\* for duplicates.
validateInputParamsSchema(inputConfig) ==
    LET wrong == {i \in 1..Len(inputConfig) : ParamError(inputConfig, inputConfig[i]) # "none"}
    IN IF wrong # {}
       THEN AdapterInputError(ParamError(inputConfig,
                                         inputConfig[CHOOSE i \in wrong : \A j \in wrong : i <= j]))
       ELSE IF HasDuplicates(AllNames(inputConfig))
       THEN AdapterInputError("Duplicate aliases")
       ELSE [kind |-> "constructed"]

\* The keys a parameter goes by in a request, its name first.
KeysOf(param) == <<param.name>> \o param.aliases

\* Whether the request carries the parameter, under its name or an alias.
Supplied(param, input) == \E i \in 1..Len(KeysOf(param)) : input[KeysOf(param)[i]] # Undefined

\* The value the request carries for the parameter: that of the first of its
\* keys present.
SuppliedValue(param, input) ==
    LET keys == KeysOf(param)
    IN input[keys[CHOOSE i \in 1..Len(keys) :
                      /\ input[keys[i]] # Undefined
                      /\ \A j \in 1..(i - 1) : input[keys[j]] = Undefined]]

ParamOf(inputConfig, name) ==
    inputConfig[CHOOSE i \in 1..Len(inputConfig) : inputConfig[i].name = name]

\* A check of dependsOn alone.
DependencyErrorOnly(inputConfig, param, input) ==
    /\ Supplied(param, input)
    /\ \E name \in param.dependsOn : ~Supplied(ParamOf(inputConfig, name), input)

\* What a request does wrong about one parameter's dependsOn and exclusive.
DependencyError(inputConfig, param, input) ==
    /\ Supplied(param, input)
    /\ \/ \E name \in param.dependsOn : ~Supplied(ParamOf(inputConfig, name), input)
       \/ \E name \in param.exclusive : Supplied(ParamOf(inputConfig, name), input)

\* What a request does wrong about one parameter's required and type.
ValueError(param, input) ==
    IF ~Supplied(param, input)
    THEN param.required
    ELSE param.type = "string" /\ SuppliedValue(param, input).type # "string"

\* The validated data: the value supplied, else the default, under the
\* parameter's name.
Validated(inputConfig, input) ==
    [name \in paramNames(inputConfig) |->
        IF Supplied(ParamOf(inputConfig, name), input)
        THEN SuppliedValue(ParamOf(inputConfig, name), input)
        ELSE ParamOf(inputConfig, name).default]

\* InputValidator.validateInput
validateInput(inputConfig, input) ==
    IF \E i \in 1..Len(inputConfig) : ValueError(inputConfig[i], input)
    THEN AdapterInputError("invalid value")
    ELSE IF \E i \in 1..Len(inputConfig) : DependencyError(inputConfig, inputConfig[i], input)
    THEN AdapterInputError("invalid dependency")
    ELSE [kind |-> "valid", data |-> Validated(inputConfig, input)]

\* What the validator's steps leave alone.
outsideValidator == <<vars, endpointVars, subscriptionSetVars, cacheVars, handled, metricsVars>>

\* new InputValidator(inputConfig)
NewInputValidator(inputConfig) ==
    /\ validator = NoValidator
    /\ validator' = [inputConfig |-> inputConfig,
                     result |-> validateInputParamsSchema(inputConfig)]
    /\ UNCHANGED validated
    /\ UNCHANGED outsideValidator

\* validator.validateInput(input): it leaves the validator as it is, so one
\* call on every validator shows all there is to see.
ValidateInput(input) ==
    /\ validator.result.kind = "constructed"
    /\ validated = NoValidated
    /\ validated' = [input |-> input, result |-> validateInput(validator.inputConfig, input)]
    /\ UNCHANGED validator
    /\ UNCHANGED outsideValidator

\* A validator is constructed once, on a schema not looked at before.
ValidatorNext ==
    \/ /\ validator = NoValidator
       /\ \E inputConfig \in InputParameters : NewInputValidator(inputConfig)
    \/ /\ validated = NoValidated
       /\ \E input \in Inputs : ValidateInput(input)

\* ---------------------------------------------------------- request handling

\* The endpoints, schemas and requests of the handled requests: endpoints of
\* one name without overrides, the schemas of the tests 'missing required
\* param throws 400' and 'presented exclusive params throws 400', requests
\* with base and quote, and four transport names.
HandledEndpointParams ==
    {params \in EndpointParams :
        /\ params.name = <<"p", "x">>
        /\ params.overrides = Undefined
        /\ params.requestTransforms = <<>>}

HandledInputParameters ==
    { <<[name |-> "base", type |-> "string", required |-> TRUE, default |-> Undefined,
         aliases |-> <<>>, dependsOn |-> {}, exclusive |-> {}]>>,
      <<[name |-> "base", type |-> "string", required |-> FALSE, default |-> Undefined,
         aliases |-> <<>>, dependsOn |-> {}, exclusive |-> {"quote"}],
        [name |-> "quote", type |-> "any", required |-> FALSE, default |-> Undefined,
         aliases |-> <<>>, dependsOn |-> {}, exclusive |-> {}]>> }

HandledInputs == {input \in Inputs : input["from"] = Undefined}

HandledRouterValues ==
    { Undefined, Str(<<"w", "s">>), Str(<<"x">>),
      Str(<<"c", "o", "n", "s", "t", "r", "u", "c", "t", "o", "r">>) }

HandledBodies ==
    {[data |-> Undefined]}
        \cup {[data |-> [transport |-> v, overrides |-> Undefined]] : v \in HandledRouterValues}

\* What foregroundExecute records into the subscription set on a miss: the
\* request's parameters under its fingerprint, with the subscription TTL.
SubscriptionKey == <<"j">>
SubscriptionValue == Num(2)
SUBSCRIPTION_TTL == 1

\* transport.foregroundExecute(context, req), as far as the subscription set
\* shows it.
foregroundExecute(set, t) ==
    IF set.type = "local"
    THEN LocalAdd(set, SubscriptionKey, SubscriptionValue, SUBSCRIPTION_TTL, t)
    ELSE [set EXCEPT !.zset = zadd(@, t + SUBSCRIPTION_TTL,
                                   storedValue(SubscriptionKey, SubscriptionValue))]

\* The answer to a request: its status and the transport whose
\* foregroundExecute was invoked, if any.
Answer(custom, body, input, status, executed) ==
    [answered |-> TRUE, custom |-> custom, body |-> body, input |-> input,
     status |-> status, executed |-> executed, before |-> subscriptionSet]

\* What the handling of requests leaves alone.
outsideHandler ==
    <<vars, cacheVars, endpoint, transformed, validator, now, getAllCall, answer, metricsVars>>

\* handle(req), from the validation on: validate the input, route, and
\* delegate to the transport's foregroundExecute.  A validation or routing
\* error is answered with its statusCode; a name under which the transports
\* map holds no Transport leaves nothing to delegate to, which is answered
\* with 500.
Handle(custom, body, input) ==
    /\ endpoint.object.state = "built"
    /\ validator.result.kind = "constructed"
    /\ subscriptionSet.type \in CacheTypes
    /\ handled = NoRequest
    /\ LET valid == validateInput(validator.inputConfig, input)
           route == getTransportNameForRequest(endpoint.object, custom, body)
       IN /\ validated' = [input |-> input, result |-> valid]
          /\ IF valid.kind = "error"
             THEN /\ handled' = Answer(custom, body, input, valid.statusCode, Undefined)
                  /\ UNCHANGED <<routed, subscriptionSet, added>>
             ELSE /\ routed' = [custom |-> custom, body |-> body, result |-> route]
                  /\ IF route.kind = "throw"
                     THEN /\ handled' = Answer(custom, body, input, route.statusCode, Undefined)
                          /\ UNCHANGED <<subscriptionSet, added>>
                     ELSE IF Get(endpoint.object.transports, route.name).type # "transport"
                     THEN /\ handled' = Answer(custom, body, input, 500, Undefined)
                          /\ UNCHANGED <<subscriptionSet, added>>
                     ELSE /\ handled' = Answer(custom, body, input, 200, Str(route.name))
                          /\ subscriptionSet' = foregroundExecute(subscriptionSet, now)
                          /\ added' = Append(added, [key |-> SubscriptionKey,
                                                     value |-> SubscriptionValue,
                                                     expiresAt |-> now + SUBSCRIPTION_TTL])
    /\ UNCHANGED outsideHandler

HandlerNext ==
    \/ \E params \in HandledEndpointParams : Construct(params)
    \/ \E inputConfig \in HandledInputParameters : NewInputValidator(inputConfig)
    \/ \E cacheType \in CacheTypes, redisClient \in BOOLEAN : BuildSet(cacheType, redisClient)
    \/ \E custom \in HandledRouterValues, body \in HandledBodies, input \in HandledInputs :
          Handle(custom, body, input)

\* -------------------------------------------------------------------- Metrics

\* How many initialize calls a Metrics object gets.
MaxInitialize == 3

\* The names the definition functions register, and the names asked for.
RegisteredNames == { <<"a">>, <<"b">> }
MetricNames == RegisteredNames \cup { <<"c">> }

\* The metric a definition function makes for a name in its n-th invocation.
Metric(name, n) == [type |-> "metric", name |-> name, made |-> n]

\* What initialize() leaves in this.metrics, without the check of
\* this.metrics: the definition function is invoked by every call.
InitializeAlways(m, throws) ==
    IF throws
    THEN [m EXCEPT !.initializeCalls = @ + 1, !.invoked = @ + 1]
    ELSE [m EXCEPT !.initializeCalls = @ + 1, !.invoked = @ + 1, !.returned = @ + 1,
                   !.metrics = Object([k \in m.metricsDefinition |-> Metric(k, m.invoked + 1)])]

\* initialize(): `if (!this.metrics) this.metrics = this.metricsDefinition()`;
\* an invocation that throws leaves this.metrics as it was.
initialize(m, throws) ==
    IF ~Truthy(m.metrics)
    THEN InitializeAlways(m, throws)
    ELSE [m EXCEPT !.initializeCalls = @ + 1]

\* get(name): `this.metrics?.[name]`, thrown for when falsy.
get(m, name) ==
    IF Truthy(GetOptional(m.metrics, name))
    THEN GetOptional(m.metrics, name)
    ELSE Thrown

\* new Metrics(metricsDefinition), the definition registering the given names.
NewMetrics(names) ==
    /\ metrics = NoMetrics
    /\ metrics' = [type |-> "Metrics", metricsDefinition |-> names, metrics |-> Undefined,
                   initializeCalls |-> 0, invoked |-> 0, returned |-> 0]
    /\ UNCHANGED got
    /\ UNCHANGED <<vars, endpointVars, subscriptionSetVars, cacheVars, validatorVars, handled>>

\* metrics.initialize(), the definition function throwing or not if invoked.
Initialize(throws) ==
    /\ metrics # NoMetrics
    /\ metrics.initializeCalls < MaxInitialize
    /\ metrics' = initialize(metrics, throws)
    /\ got' = NoGet
    /\ UNCHANGED <<vars, endpointVars, subscriptionSetVars, cacheVars, validatorVars, handled>>

\* metrics.get(name)
MetricsGet(name) ==
    /\ metrics # NoMetrics
    /\ got' = [called |-> TRUE, name |-> name, result |-> get(metrics, name)]
    /\ UNCHANGED metrics
    /\ UNCHANGED <<vars, endpointVars, subscriptionSetVars, cacheVars, validatorVars, handled>>

MetricsNext ==
    \/ \E names \in SUBSET RegisteredNames : NewMetrics(names)
    \/ \E throws \in BOOLEAN : Initialize(throws)
    \/ \E name \in MetricNames : MetricsGet(name)

\* ---------------------------------------------------------- specifications

\* The transport, with everything else at rest.
Spec == Init /\ [][Next]_allVars

\* An endpoint, with the transport at rest.
EndpointSpecInit == Init /\ ~builders

SpecEndpoint == EndpointSpecInit /\ [][EndpointNext]_allVars

\* The subscription sets, with the transport and the endpoint at rest.
SubscriptionSetSpecInit == Init /\ builders

SpecSubscriptionSet == SubscriptionSetSpecInit /\ [][SubscriptionSetNext]_allVars

\* The caches and the two factories, with the transport and the endpoint at rest.
CacheSpecInit == Init /\ builders

SpecCache == CacheSpecInit /\ [][CacheNext]_allVars

\* An InputValidator, with everything else at rest.
ValidatorSpecInit == Init /\ builders

SpecValidator == ValidatorSpecInit /\ [][ValidatorNext]_allVars

\* The handling of a request by an endpoint with its validator and a
\* subscription set, with the transport and the caches at rest.
HandlerSpecInit == Init /\ builders

SpecHandler == HandlerSpecInit /\ [][HandlerNext]_allVars

\* A Metrics object, with everything else at rest.
MetricsSpecInit == Init /\ builders

SpecMetrics == MetricsSpecInit /\ [][MetricsNext]_allVars

\* ------------------------------------------------------------------ claims

\* What the running tick did, read off its record.
HasOp(o) == \E i \in 1..Len(tk.ops) : tk.ops[i].op = o
IsSend(m, kind) == m.op = "send" /\ m.kind = kind
Sent(kind, on) ==
    {tk.ops[i].p : i \in {j \in 1..Len(tk.ops) : IsSend(tk.ops[j], kind) /\ tk.ops[j].on = on}}
Count(kind, p) ==
    Cardinality({i \in 1..Len(tk.ops) : IsSend(tk.ops[i], kind) /\ tk.ops[i].p = p})
\* Every subscribe message of the tick went out on the socket the tick
\* constructed, after the tick had closed the one it started with.
SubscribesFollowClose ==
    \A i \in 1..Len(tk.ops) :
        IsSend(tk.ops[i], "subscribe")
            => /\ tk.ops[i].on = "new"
               /\ \E j \in 1..(i - 1) : tk.ops[j].op = "close"

\* C1, as stated: a tick that starts with a socket that is not closed and
\* with min(now - lastMessageReceivedAt, now - connectionOpenedAt) above the
\* TTL closes that socket before it sends any subscribe message, and sends
\* no subscribe message on it.
C1_UnresponsiveAtTickStart ==
    (tk.startOpen /\ tk.startUnresp) => SubscribesFollowClose

\* C1, amended: a tick that, when it makes its checks (config.url has
\* resolved), finds the socket not closed and the last activity more than
\* the TTL ago, closes that socket at once, before any subscribe message, and
\* sends no subscribe message of the tick on it.
C1_UnresponsiveAtCheck ==
    (tk.evalOpen /\ tk.evalUnresp)
        => /\ tk.ops # <<>>
           /\ tk.ops[1].op = "close"
           /\ SubscribesFollowClose

\* An unresponsive, url-unchanged connection was replaced and the tick has
\* sent its subscribes on the new socket.
C1_Witness ==
    /\ pc = "sleep"
    /\ tk.evalOpen /\ tk.evalUnresp /\ ~tk.urlChanged
    /\ Sent("subscribe", "new") # {}

C4_OnlyNonEmptyResultsCount ==
    [][(last'.type = "message" /\ last'.result \in {"undefined", "empty"})
          => /\ sinceLastMessageReceived' = sinceLastMessageReceived
             /\ ~last'.wrote]_vars

\* C5, as stated: while a tick awaits its socket it has sent nothing, and
\* the tick after one that failed on a rejecting open handler starts without
\* an open socket and opens one before it sends any message.
C5_RetryFromDisconnected ==
    /\ pc = "open" => ~HasOp("send")
    /\ tk.prev = "openRejected"
         => /\ ~tk.startOpen
            /\ \A i \in 1..Len(tk.ops) :
                  tk.ops[i].op = "send" => \E j \in 1..(i - 1) : tk.ops[j].op = "open"

C7_OpensOnlyWhenDisconnected ==
    /\ [](HasOp("open")
            => /\ desiredSubscriptions # {}
               /\ ~tk.evalOpen \/ tk.ops[1].op = "close")
    /\ [](pc = "open" => (tk.ops[Len(tk.ops)].op = "open" /\ ~HasOp("send")))
    /\ [][(wsConnection' # wsConnection /\ wsConnection'.readyState = "CONNECTING")
            => /\ pc = "url" /\ pc' = "open"
               /\ desiredSubscriptions # {}
               /\ connectionClosed \/ HasOp("close")'
               /\ sinceStreamEstablished' = 0]_vars
    /\ [][(pc = "open" /\ pc' = "sleep")
            => /\ wsConnection.readyState # "CONNECTING"
               /\ wsConnection.handler = "running"
               /\ sinceConnectionOpened' = 0]_vars
    /\ [][(sinceConnectionOpened' < sinceConnectionOpened)
            => (pc = "open" /\ pc' = "sleep")]_vars

\* A tick has closed the socket it found, constructed another, awaited its
\* opening and stamped connectionOpenedAt.
C7_Witness ==
    /\ pc = "sleep"
    /\ HasOp("close") /\ HasOp("open")
    /\ sinceConnectionOpened = 0
    /\ wsConnection.readyState = "OPEN"

\* C8: when a tick that was not skipped and did not fail has done its
\* sending, it has sent, with builders, exactly one subscribe message for
\* each entry of the new set it used and exactly one unsubscribe message for
\* each entry of stale, and nothing else; without builders, nothing.
C8_OneMessagePerDelta ==
    pc = "sleep"
        => IF builders
           THEN \A p \in Params :
                  /\ Count("subscribe", p) = (IF p \in subscriptions.new THEN 1 ELSE 0)
                  /\ Count("unsubscribe", p) = (IF p \in subscriptions.stale THEN 1 ELSE 0)
           ELSE ~HasOp("send")

\* A tick with builders has sent both a subscribe and an unsubscribe.
C8_Witness ==
    /\ pc = "sleep"
    /\ builders
    /\ subscriptions.new # {} /\ subscriptions.stale # {}
    /\ Sent("subscribe", "old") # {} /\ Sent("unsubscribe", "old") # {}

\* C9: throughout a tick, the deltas the stream handler holds satisfy
\* (new \cup lastKnown) \ stale = desired, also once a forced close has
\* replaced new by the desired subscriptions.
C9_DeltaCorrectness ==
    pc # "idle"
        => /\ (subscriptions.new \cup lastKnown) \ subscriptions.stale = subscriptions.desired
           /\ subscriptions.desired = desiredSubscriptions

\* A forced close has replaced a new set that was smaller than the desired
\* one: one parameter was subscribed before, the other is new.
C9_Witness ==
    /\ pc \in {"open", "sleep"}
    /\ HasOp("close")
    /\ subscriptions.new = desiredSubscriptions
    /\ lastKnown \cap desiredSubscriptions # {}
    /\ desiredSubscriptions \ lastKnown # {}
    /\ subscriptions.stale = {}

\* C10, as stated: when a tick has just completed and the transport holds
\* an open socket (builders configured), lastKnown is what the provider
\* holds as subscribed on that socket.
C10_LastKnownIsActive ==
    (pc = "idle" /\ last.type = "tickEnd" /\ tk.outcome = "completed"
        /\ builders /\ wsConnection.readyState = "OPEN")
        => lastKnown = wsConnection.active

\* C11, as stated: every result the message handler writes carries a
\* providerDataStreamEstablished equal to the connectionOpenedAt of the
\* connection the message arrived on (here: on this.wsConnection).
C11_StampIsConnectionOpenedAt ==
    (last.type = "message" /\ last.cur /\ last.pdse # -1)
        => last.pdse = sinceConnectionOpened

\* C11, amended: every result the message handler writes carries the
\* transport's providerDataStreamEstablished as it is when the message is
\* handled (the time at which the latest socket was constructed), on
\* whichever socket the message arrived; and every result written is stamped.
C11_StampIsStreamEstablished ==
    /\ (last.type = "message" /\ last.pdse # -1)
          => (last.wrote /\ last.pdse = sinceStreamEstablished)
    /\ (last.type = "message" /\ last.result = "results") => last.pdse # -1

\* A result was written on the socket the transport holds, stamped with a
\* time older than that connection's connectionOpenedAt.
C11_Witness ==
    /\ last.type = "message" /\ last.cur /\ last.wrote
    /\ last.pdse = LongAgo
    /\ sinceConnectionOpened = 0
    /\ wsConnection.readyState = "OPEN"

\* C12, as stated: a tick returns normally (skipped ticks included) only
\* out of its sleep of BACKGROUND_EXECUTE_MS_WS.
C12_EveryNormalTickSleeps ==
    [][(ticks' # ticks \/ pc # "idle") /\ pc' = "idle"
          /\ tk'.outcome \in {"skipped", "completed"}
          => pc = "sleep"]_vars

\* What the routing claims read: the names the endpoint has registered, and
\* what each source yielded for the routed request (nothing = undefined or
\* the empty string).
Registered == DOMAIN endpoint.object.transports
Routed == routed.result.kind # "none"
FromCustomRouter == IF endpoint.object.customRouter THEN routed.custom ELSE Undefined
FromRequest == IF routed.body.data = Undefined THEN Undefined ELSE routed.body.data.transport
FromDefault == endpoint.object.defaultTransport
Chosen ==
    IF Truthy(FromCustomRouter) THEN FromCustomRouter
    ELSE IF Truthy(FromRequest) THEN FromRequest
    ELSE FromDefault

\* C13: on an endpoint with more than one transport, the name is taken from
\* the custom router's result, else from the request's data.transport, else
\* from defaultTransport, a later one only when every earlier one yields
\* nothing; a call that returns returns the chosen name in lower case, and
\* it returns whenever a registered name equals the chosen one up to case.
C13_RoutingPrecedence ==
    (Routed /\ Cardinality(Registered) > 1)
        => /\ routed.result.kind = "return"
                => (Truthy(Chosen) /\ routed.result.name = toLowerCase(Chosen.chars))
           /\ ~Truthy(Chosen) => routed.result = Throw(400)
           /\ \A n \in Registered :
                  (Truthy(Chosen) /\ toLowerCase(n) = toLowerCase(Chosen.chars))
                      => routed.result = Return(n)

\* The custom router yielded the empty string, the request named WS, the
\* default transport is another one: the request went to ws.
C13_Witness ==
    /\ Routed
    /\ Cardinality(Registered) > 1
    /\ endpoint.object.customRouter /\ routed.custom = Str(<<>>)
    /\ FromRequest = Str(<<"W", "S">>)
    /\ FromDefault = Str(<<"R", "e", "s", "t">>)
    /\ routed.result = Return(<<"w", "s">>)

\* C14, as stated: on an endpoint with exactly one registered transport,
\* however it was given, every request is routed to that transport.
C14_SingleTransportAlways ==
    (Routed /\ Cardinality(Registered) = 1)
        => \A n \in Registered : routed.result = Return(n)

\* C15, as stated: getTransportNameForRequest returns a registered name or
\* throws an error with statusCode 400.
C15_RegisteredOr400 ==
    Routed
        => \/ routed.result.kind = "return" /\ routed.result.name \in Registered
           \/ routed.result.kind = "throw" /\ routed.result.statusCode = 400

\* C16: constructing an endpoint with a transports map fails exactly when
\* one of the names is empty or has a character that is not a lower-case
\* ASCII letter; the names of an endpoint so constructed are all non-empty
\* and made of lower-case ASCII letters.
C16_TransportNamesLowercase ==
    LET letters == {LowerCase[j] : j \in 1..Len(LowerCase)}
        bad(k) == k = <<>> \/ \E c \in 1..Len(k) : k[c] \notin letters
    IN (endpoint # NoEndpointYet /\ endpoint.form = "transports")
          => /\ endpoint.object.state = "failed" <=> \E k \in endpoint.keys : bad(k)
             /\ endpoint.object.state = "built"
                  => /\ Registered = endpoint.keys
                     /\ \A k \in Registered : ~bad(k)

\* A construction failed on a name whose second character is upper case.
C16_Witness ==
    /\ endpoint # NoEndpointYet
    /\ endpoint.form = "transports"
    /\ endpoint.keys = {<<"w", "s">>, <<"w", "S">>}
    /\ endpoint.object.state = "failed"

\* The entries an overrides object holds itself, and whether it holds a
\* symbol for the base.
OwnEntries(v) == IF v.type = "object" THEN v.props ELSE <<>>
Matches(v, base) == base \in DOMAIN OwnEntries(v) /\ OwnEntries(v)[base] # Str(<<>>)

\* C17, as stated: the transforms run in the order registered, the
\* symbolOverrider first; it replaces data.base by the request's override
\* for this endpoint when that has one for the base, else by the endpoint's
\* static override when that has one, else it leaves the base; nothing else
\* of the request changes.
C17_SymbolOverride ==
    transformed.done
        => LET ep == endpoint.object
               before == transformed.before
               after == transformed.after
               base == before.data.base.chars
               name == toLowerCase(ep.name)
               perRequest ==
                   IF before.body.data = Undefined THEN Undefined
                   ELSE IF name \in DOMAIN OwnEntries(before.body.data.overrides)
                   THEN OwnEntries(before.body.data.overrides)[name]
                   ELSE Undefined
               expected ==
                   IF Matches(perRequest, base) THEN OwnEntries(perRequest)[base]
                   ELSE IF Matches(ep.overrides, base) THEN OwnEntries(ep.overrides)[base]
                   ELSE before.data.base
           IN /\ [i \in 1..Len(after.log) |-> after.log[i].transform] = ep.requestTransforms
              /\ Head(ep.requestTransforms) = "symbolOverrider"
              /\ after.log[1].base = before.data.base
              /\ \A i \in 2..Len(after.log) : after.log[i].base = expected
              /\ after.data.base = expected
              /\ after.data.quote = before.data.quote
              /\ after.body = before.body

\* What the subscription-set claims read: the add calls had distinct keys,
\* and none of the entries added has expired.
DistinctKeys == \A i, j \in 1..Len(added) : added[i].key = added[j].key => i = j
NoneExpired == \A i \in 1..Len(added) : ~Expired(added[i], now)

\* C18: the local set never holds more than its capacity C; after n > C adds
\* with distinct keys, none expired, get answers undefined for the n - C
\* earliest keys and the stored value for the latest C keys, and getAll
\* answers the values of the latest C in insertion order.
C18_FifoEviction ==
    subscriptionSet.type = "local"
        => LET C == subscriptionSet.capacity
               n == Len(added)
           IN /\ Len(subscriptionSet.entries) <= C
              /\ (n > C /\ DistinctKeys /\ NoneExpired)
                    => /\ \A i \in 1..(n - C) :
                              LocalGet(subscriptionSet, added[i].key, now) = Undefined
                       /\ \A i \in (n - C + 1)..n :
                              LocalGet(subscriptionSet, added[i].key, now) = added[i].value
                       /\ LocalGetAll(subscriptionSet, now)
                              = [i \in 1..C |-> added[n - C + i].value]
                       /\ answer.op = "get"
                              => answer.result = LocalGet(subscriptionSet, answer.key, now)
                       /\ answer.op = "getAll"
                              => answer.result = Resolves(LocalGetAll(subscriptionSet, now))

\* One more add than the capacity, distinct keys, none expired, and getAll
\* has just answered the two latest values.
C18_Witness ==
    /\ subscriptionSet.type = "local"
    /\ Len(added) = CACHE_MAX_SUBSCRIPTIONS + 1
    /\ DistinctKeys /\ NoneExpired
    /\ answer.op = "getAll"
    /\ answer.result = Resolves(<<added[2].value, added[3].value>>)

\* The value that was added for a member of the sorted set.
AddedValue(member) ==
    added[CHOOSE i \in 1..Len(added) : storedValue(added[i].key, added[i].value) = member].value

\* The local set: get and getAll answer no entry whose expiry is earlier
\* than now, and getAll answers every entry the set holds whose TTL has not
\* elapsed.
LocalLiveEntries ==
    (subscriptionSet.type = "local" /\ answer.op \in {"get", "getAll"})
        => LET held == answer.held
               T == answer.at
           IN IF answer.op = "getAll"
              THEN /\ answer.result.kind = "resolves"
                   /\ \E S \in SUBSET (1..Len(held)) :
                        /\ \A i \in S : ~(held[i].expiresAt < T)
                        /\ \A i \in 1..Len(held) : held[i].expiresAt > T => i \in S
                        /\ answer.result.value
                               = LET kept == SelectSeq([i \in 1..Len(held) |-> i],
                                                       LAMBDA i : i \in S)
                                 IN [i \in 1..Len(kept) |-> held[kept[i]].value]
              ELSE \/ answer.result = Undefined
                   \/ \E i \in 1..Len(held) :
                        /\ held[i].key = answer.key
                        /\ held[i].value = answer.result
                        /\ ~(held[i].expiresAt < T)

\* The Redis set, now being the instant getAll read the clock: getAll
\* returns no entry whose expiry is earlier than now, and it returns every
\* entry held whose TTL has not elapsed, with the value added.
RedisLiveEntries ==
    (subscriptionSet.type = "redis" /\ answer.op = "getAll")
        => LET T == answer.at
           IN /\ answer.result.kind = "resolves"
              /\ \E S \in SUBSET answer.held :
                   /\ \A e \in S : ~(e.score < T)
                   /\ \A e \in answer.held : e.score > T => e \in S
                   /\ \A e \in answer.before :
                          e.score > T => \E f \in S : f.member = e.member
                   /\ answer.result.value
                          = [i \in 1..Cardinality(S) |-> AddedValue(zrange(S)[i].member)]

\* C19, as stated: on either backend, get and getAll return no entry whose
\* expiry is earlier than the current time, and getAll returns every entry
\* that was added, was not evicted, and whose TTL has not elapsed.
C19_LiveEntries == LocalLiveEntries /\ RedisLiveEntries

\* What a getAll of the Redis set that has just returned did: the members
\* its removal took, and whether it answered the decoding of every member
\* the set held when it listed them, in the order of the listing.
RedisGetAllReturned == subscriptionSet.type = "redis" /\ answer.op = "getAll"
Removed == answer.before \ answer.after
AnsweredAllHeld ==
    /\ {answer.validEntries[i] : i \in 1..Len(answer.validEntries)} = answer.held
    /\ Len(answer.validEntries) = Cardinality(answer.held)
    /\ IF \E e \in answer.held : Decoded(e.member) = SyntaxError
       THEN answer.result.kind = "rejects"
       ELSE /\ answer.result.kind = "resolves"
            /\ answer.result.value
                   = [i \in 1..Len(answer.validEntries) |-> Decoded(answer.validEntries[i].member)]

\* C20, as stated: getAll removes exactly the members whose score is less
\* than the time it read, a member whose score equals that time stays and is
\* returned, and what it returns is the decoding of every remaining member.
C20_RemovesOlderThanNow ==
    RedisGetAllReturned
        => /\ Removed = {e \in answer.before : e.score < answer.at}
           /\ \A e \in answer.before : e.score = answer.at => e.member \in
                  {answer.validEntries[i].member : i \in 1..Len(answer.validEntries)}
           /\ AnsweredAllHeld

\* C20, amended: getAll removes exactly the members whose score is less than
\* or equal to the time it read, so a member whose score equals that time is
\* removed; what it returns is the decoding of every member the set holds
\* after that, and it fails when one of them does not decode.
C20_RemovesUpToNow ==
    RedisGetAllReturned
        => /\ Removed = {e \in answer.before : e.score <= answer.at}
           /\ \A e \in answer.held : e \in answer.after \/ e.score > answer.at
           /\ AnsweredAllHeld

\* A getAll found a member whose score was the time it read and one with a
\* later score: it removed the first and returned the value of the second.
C20_Witness ==
    /\ RedisGetAllReturned
    /\ \E e \in Removed : e.score = answer.at
    /\ \E e \in answer.after : e.score > answer.at
    /\ answer.result.kind = "resolves"
    /\ Len(answer.result.value) = 1

\* The entries a getAll that has just returned found for a key: on the local
\* set the live entries with that key, on the Redis set the members listed
\* that an add with that key stored.
LastAdd(key) ==
    added[CHOOSE i \in 1..Len(added) :
              added[i].key = key /\ \A j \in (i + 1)..Len(added) : added[j].key # key]
EntriesFor(key) ==
    IF subscriptionSet.type = "local"
    THEN {i \in 1..Len(answer.held) :
              answer.held[i].key = key /\ ~Expired(answer.held[i], answer.at)}
    ELSE {e \in answer.held :
              \E i \in 1..Len(added) :
                  added[i].key = key /\ storedValue(key, added[i].value) = e.member}
ExpiryOf(entry) ==
    IF subscriptionSet.type = "local" THEN answer.held[entry].expiresAt ELSE entry.score

\* C21, as stated: a getAll that returns values holds at most one entry for
\* any key, whatever values the adds with that key had, and the expiry of
\* that entry is the one the latest add with the key gave it.
C21_DuplicateKeyRefreshes ==
    (answer.op = "getAll" /\ answer.result.kind = "resolves")
        => \A key \in {added[i].key : i \in 1..Len(added)} :
              /\ Cardinality(EntriesFor(key)) <= 1
              /\ \A e \in EntriesFor(key) : ExpiryOf(e) = LastAdd(key).expiresAt

\* Keys and values that keep the delimiter out of the stored member.
HasDelimiter(chars) == \E i \in 1..Len(chars) : chars[i] = DELIMITER
Plain(add) == ~HasDelimiter(add.key) /\ ~HasDelimiter(JSONstringify(add.value))

\* C22: a member stored by an add whose key and whose value's JSON text hold
\* no delimiter decodes to the value that was added; when every add was such
\* a one, getAll returns, and what it returns holds the value of every add
\* that is the latest for its member and has not expired.
C22_RoundTrip ==
    RedisGetAllReturned
        => /\ \A i \in 1..Len(added) : \A e \in answer.held :
                  (Plain(added[i]) /\ e.member = storedValue(added[i].key, added[i].value))
                      => Decoded(e.member) = added[i].value
           /\ (\A i \in 1..Len(added) : Plain(added[i]))
                  => /\ answer.result.kind = "resolves"
                     /\ \A e \in answer.held :
                            \E n \in 1..Len(answer.result.value) :
                                /\ answer.validEntries[n] = e
                                /\ answer.result.value[n] = AddedValue(e.member)
                     /\ \A i \in 1..Len(added) :
                            (added[i].expiresAt > answer.at
                               /\ \A j \in (i + 1)..Len(added) :
                                      storedValue(added[j].key, added[j].value)
                                          # storedValue(added[i].key, added[i].value))
                                => \E n \in 1..Len(answer.result.value) :
                                       answer.result.value[n] = added[i].value

\* getAll returned the string made of one quotation mark, added under j, and
\* the number 2, added under k.
C22_Witness ==
    /\ RedisGetAllReturned
    /\ Len(added) = 2
    /\ added[1] = [key |-> <<"j">>, value |-> Str(<<"\"">>), expiresAt |-> 2]
    /\ added[2].key = <<"k">> /\ added[2].value = Num(2)
    /\ answer.result.kind = "resolves"
    /\ \E n \in 1..Len(answer.result.value) : answer.result.value[n] = Str(<<"\"">>)
    /\ \E n \in 1..Len(answer.result.value) : answer.result.value[n] = Num(2)

\* C23, as stated: whatever the keys of the add calls, the delimiter
\* included, a later getAll does not fail and returns, for every member it
\* lists, the value that was added (the values' JSON texts being free of the
\* delimiter).
C23_DelimiterInKeyIsHarmless ==
    (RedisGetAllReturned
       /\ \A i \in 1..Len(added) : ~HasDelimiter(JSONstringify(added[i].value)))
        => /\ answer.result.kind = "resolves"
           /\ answer.result.value
                  = [n \in 1..Len(answer.validEntries) |->
                         AddedValue(answer.validEntries[n].member)]

\* ----------------------------------------------------------- claims: caches

\* The get that has just returned found an entry for its key, and that entry
\* had expired.
ReadExpiredEntry ==
    /\ read.op = "get"
    /\ read.key \in HeldKeys(read.held)
    /\ written[read.key].status = "set"
    /\ read.at >= written[read.key].expiresAt

\* C24: for every cache entry written with TTL ttl at time t0, a get at any
\* time t >= t0 + ttl returns a miss; on the local cache such a get also
\* deletes the expired entry.
C24_TtlHonoured ==
    read.op = "get"
        => /\ (written[read.key].status = "set" /\ read.at >= written[read.key].expiresAt)
                  => read.result = Miss
           /\ (ReadExpiredEntry /\ cache.type = "local")
                  => read.key \notin HeldKeys(cache)

C24_Witness ==
    /\ ReadExpiredEntry
    /\ cache.type = "local"
    /\ read.at = written[read.key].expiresAt
    /\ read.result = Miss
    /\ read.key \notin HeldKeys(cache)
    /\ Len(cache.entries) = 1

\* Of the keys given, the one whose last use is the longest ago.
LeastRecentlyUsed(keys) ==
    recency[CHOOSE i \in 1..Len(recency) :
                /\ recency[i] \in keys
                /\ \A j \in 1..(i - 1) : recency[j] \notin keys]

\* A step in which a new key enters the local cache makes room for it only
\* when the cache is full, and then by dropping the least recently used key.
EvictsLeastRecentlyUsed ==
    (/\ cache.type = "local"
     /\ cache'.type = "local"
     /\ HeldKeys(cache') \ HeldKeys(cache) # {})
        => /\ Cardinality(HeldKeys(cache') \ HeldKeys(cache)) = 1
           /\ HeldKeys(cache) \ HeldKeys(cache') =
                  IF Cardinality(HeldKeys(cache)) >= CacheCapacity
                  THEN {LeastRecentlyUsed(HeldKeys(cache))}
                  ELSE {}

\* C25: after any sequence of set, get and delete operations the local cache
\* holds at most its configured capacity of entries, and a set that would
\* exceed the capacity evicts the least recently used entry.
C25_LruBound ==
    /\ [](cache.type = "local" => Len(cache.entries) <= CacheCapacity)
    /\ [][EvictsLeastRecentlyUsed]_allVars

\* The cache is full after an eviction of the key that was set second: the
\* key set first had been used again since.
C25_Witness ==
    /\ cache.type = "local"
    /\ Len(cache.entries) = CacheCapacity
    /\ HeldKeys(cache) = {"f", "h"}
    /\ written["g"].status = "set"
    /\ written["g"].evicted
    /\ written["f"].status = "set"
    /\ written["f"].expiresAt = 1
    /\ written["g"].expiresAt = 2
    /\ written["h"].expiresAt = 3
    /\ ~written["f"].evicted

\* The get that has just returned was a read, on the local cache, of a key
\* whose last set has not been followed by a delete of the key and whose TTL
\* had not elapsed at the read.
ReadAfterWrite ==
    /\ read.op = "get"
    /\ cache.type = "local"
    /\ written[read.key].status = "set"
    /\ read.at < written[read.key].expiresAt

\* C26: on the local backend, a read of k issued after a write
\* set(k, v, ttl > 0) has completed, and before the TTL elapses, returns v.
C26_ReadYourWrites ==
    ReadAfterWrite => read.result = Hit(written[read.key].value)

\* C26, amended: the same, for a key that has not been evicted for capacity
\* since the write.
C26_ReadYourWritesUnlessEvicted ==
    (ReadAfterWrite /\ ~written[read.key].evicted)
        => read.result = Hit(written[read.key].value)

\* A read of the second value set for a key, after a set of another key and a
\* millisecond later than the write.
C26_Witness ==
    /\ ReadAfterWrite
    /\ ~written[read.key].evicted
    /\ read.key = "f"
    /\ read.result = Hit("w")
    /\ read.at = 1
    /\ written["f"].expiresAt = 2
    /\ written["g"].status = "set"
    /\ Len(read.held.entries) = 2
    /\ read.held.entries[1].key = "f"

\* -------------------------------------------------------- claims: factories

\* What the claim expects of a factory called with cacheType and with
\* (redisClient) or without a Redis client, of the backend it leaves.
AsClaimed(cacheType, redisClient, backend) ==
    /\ (cacheType = "redis" /\ ~redisClient) => backend.type = "error"
    /\ (cacheType = "redis" /\ redisClient) => backend.type = "redis"
    /\ cacheType = "local" => backend.type = "local"

\* C30: building a redis-backed cache or subscription set without a Redis
\* client fails with an error instead of returning a backend; with cache type
\* 'local' a local backend is returned, and with 'redis' plus a client a
\* redis backend.
C30_FactoriesNeedClient ==
    [][/\ \A cacheType \in FactoryCacheTypes, redisClient \in BOOLEAN :
             BuildCache(cacheType, redisClient)
                 => AsClaimed(cacheType, redisClient, cache')
       /\ \A cacheType \in CacheTypes, redisClient \in BOOLEAN :
             BuildSet(cacheType, redisClient)
                 => AsClaimed(cacheType, redisClient, subscriptionSet')]_allVars

\* Both factories were asked for a redis backend without a client, and threw.
C30_Witness ==
    /\ cache = Thrown
    /\ subscriptionSet = Thrown

\* ------------------------------------------------------- claims: validation

\* The places of a schema where a name stands: <<i, 0>> for the name of the
\* i-th parameter, <<i, k>> for its k-th alias.
Slots(inputConfig) ==
    {<<i, k>> : i \in 1..Len(inputConfig), k \in 0..2} \ 
        {<<i, k>> \in (1..Len(inputConfig)) \X (0..2) : k > Len(inputConfig[i].aliases)}
SlotName(inputConfig, slot) ==
    IF slot[2] = 0 THEN inputConfig[slot[1]].name
    ELSE inputConfig[slot[1]].aliases[slot[2]]

RequiredWithDefault(inputConfig) ==
    \E i \in 1..Len(inputConfig) :
        inputConfig[i].required /\ inputConfig[i].default # Undefined
UndeclaredName(inputConfig) ==
    \E i \in 1..Len(inputConfig) :
        \E name \in inputConfig[i].dependsOn \cup inputConfig[i].exclusive :
            \A j \in 1..Len(inputConfig) : inputConfig[j].name # name
Coincide(inputConfig) ==
    \E a, b \in Slots(inputConfig) :
        a # b /\ SlotName(inputConfig, a) = SlotName(inputConfig, b)
Inconsistent(inputConfig) ==
    RequiredWithDefault(inputConfig) \/ UndeclaredName(inputConfig) \/ Coincide(inputConfig)

\* C28: constructing an InputValidator fails with a 400 error whenever the
\* schema is inconsistent (a parameter required and with a default, a name in
\* dependsOn or exclusive that is not a declared parameter, or two aliases or
\* names that coincide); no validator for an inconsistent schema ever exists.
C28_InconsistentSchemaRejected ==
    (validator.result.kind # "none" /\ Inconsistent(validator.inputConfig))
        => /\ validator.result.kind = "error"
           /\ validator.result.statusCode = 400

\* The schema of the test 'duplicate params throws 400', the undeclared alias
\* left out: base goes by the alias base, and that is all that is wrong.
C28_Witness ==
    /\ validator.result = AdapterInputError("Duplicate aliases")
    /\ validator.inputConfig =
           <<[name |-> "base", type |-> "string", required |-> TRUE, default |-> Undefined,
              aliases |-> <<"base">>, dependsOn |-> {}, exclusive |-> {}]>>

\* The request just validated carries the i-th parameter together with one
\* of its exclusive, or without one of its dependsOn.
Conflict(i) ==
    LET inputConfig == validator.inputConfig
        carried == {j \in 1..Len(inputConfig) :
                       \E key \in {inputConfig[j].name}
                                     \cup {inputConfig[j].aliases[k] :
                                               k \in 1..Len(inputConfig[j].aliases)} :
                           validated.input[key] # Undefined}
    IN /\ i \in carried
       /\ \/ \E j \in carried : inputConfig[j].name \in inputConfig[i].exclusive
          \/ \E j \in (1..Len(inputConfig)) \ carried :
                inputConfig[j].name \in inputConfig[i].dependsOn

\* C29: a request that supplies a parameter together with any parameter
\* listed in its exclusive, or supplies a parameter without every parameter
\* listed in its dependsOn, is rejected with status 400.
C29_ExclusiveAndDependsOn ==
    (validated.result.kind # "none" /\ \E i \in 1..Len(validator.inputConfig) : Conflict(i))
        => /\ validated.result.kind = "error"
           /\ validated.result.statusCode = 400

\* The exclusive conflict of the specification's scenario: base with
\* exclusive quote, and a request with both.
C29_Witness ==
    /\ validated.result = AdapterInputError("invalid dependency")
    /\ Len(validator.inputConfig) = 2
    /\ validator.inputConfig[1].exclusive = {"quote"}
    /\ validator.inputConfig[1].dependsOn = {}
    /\ validator.inputConfig[2].exclusive = {}
    /\ validator.inputConfig[2].dependsOn = {}
    /\ validated.input = [key \in InputKeys |->
                             IF key = "from" THEN Undefined ELSE Str(<<"E">>)]

\* -------------------------------------------------- claims: request handling

\* The request handled is invalid input: its validation fails, or, on an
\* endpoint with more than one transport, the custom router, the request and
\* the default transport name no transport, or name one that is not
\* registered.
AskedFor ==
    LET ep == endpoint.object
        fromRouter == IF ep.customRouter THEN handled.custom ELSE Undefined
        fromRequest == IF handled.body.data = Undefined THEN Undefined
                       ELSE handled.body.data.transport
    IN IF Truthy(fromRouter) THEN fromRouter
       ELSE IF Truthy(fromRequest) THEN fromRequest
       ELSE ep.defaultTransport
ValidationFails == validateInput(validator.inputConfig, handled.input).kind = "error"
NoTransportResolves == DEFAULT_TRANSPORT_NAME \notin Registered /\ ~Truthy(AskedFor)
UnknownTransport ==
    /\ DEFAULT_TRANSPORT_NAME \notin Registered
    /\ Truthy(AskedFor)
    /\ toLowerCase(AskedFor.chars) \notin Registered
InvalidInput == ValidationFails \/ NoTransportResolves \/ UnknownTransport

\* C27: a request that is invalid input (validation failure, no resolvable
\* transport, or unknown transport) is answered with status 400 and causes no
\* state change: no transport's foregroundExecute is invoked, and nothing is
\* added to the cache or the subscription set.
C27_InvalidInputAnswered400 ==
    (handled.answered /\ InvalidInput)
        => /\ handled.status = 400
           /\ handled.executed = Undefined
           /\ subscriptionSet = handled.before
           /\ added = <<>>
           /\ cache = NoCache


\* C31, as stated: get throws for every name until initialize has been
\* called; once it has been called get returns the registered metric; and
\* over any number of initialize calls the definition function is invoked at
\* most once.
C31_InitializeOnce ==
    /\ (got.called /\ metrics.initializeCalls = 0) => got.result = Thrown
    /\ (got.called /\ metrics.initializeCalls > 0 /\ got.name \in metrics.metricsDefinition)
          => got.result.type = "metric"
    /\ metrics # NoMetrics => metrics.invoked <= 1

\* C31, amended: get throws for every name until an invocation of the
\* definition function has returned, and from then on returns, for every
\* name the definition registers, the metric that one invocation made.  An
\* initialize call invokes the definition function exactly when no
\* invocation has returned yet: an invocation that throws leaves the metrics
\* unset and the next initialize call invokes the function again, and once
\* an invocation has returned the function is never invoked again and the
\* metrics never change.
C31_InitializeOnceReturned ==
    /\ [](metrics # NoMetrics
            => /\ metrics.returned <= 1
               /\ (metrics.returned = 0) = (metrics.metrics = Undefined)
               /\ (got.called /\ metrics.returned = 0) => got.result = Thrown
               /\ (got.called /\ metrics.returned = 1 /\ got.name \in metrics.metricsDefinition)
                     => /\ got.result.type = "metric"
                        /\ got.result.name = got.name
                        /\ got.result.made = metrics.invoked)
    /\ [][(metrics # NoMetrics /\ metrics'.initializeCalls > metrics.initializeCalls)
            => IF metrics.returned = 0
               THEN metrics'.invoked = metrics.invoked + 1
               ELSE metrics' = [metrics EXCEPT !.initializeCalls = @ + 1]]_allVars

\* A first initialize call threw, a second returned, a third has been made,
\* and get has then returned a registered metric: the one the second
\* invocation made.
C31_Witness ==
    /\ metrics # NoMetrics
    /\ metrics.initializeCalls = 3
    /\ metrics.invoked = 2
    /\ metrics.returned = 1
    /\ got.called
    /\ got.result.type = "metric"


\* C33, as stated: whenever a tick has sent a message, this.wsConnection
\* was, when sendMessages ran, a socket in the OPEN state.
C33_SendsOnlyOnOpenSocket ==
    (pc = "sleep" /\ HasOp("send")) => tk.sentOn = "OPEN"


\* C32, as stated: when the tick before completed and the socket has closed
\* between the two ticks without a tick closing it, a tick with the same,
\* non-empty desired subscriptions (builders configured) opens a new
\* connection and sends on it a subscribe message for every desired entry.
C32_ResubscribesAfterClose ==
    (/\ pc = "sleep"
     /\ builders
     /\ tk.prev = "completed"
     /\ ~tk.startOpen
     /\ desiredSubscriptions # {}
     /\ lastKnown = desiredSubscriptions)
        => /\ HasOp("open")
           /\ Sent("subscribe", "new") = desiredSubscriptions


\* C34, as stated, for the socket a tick constructs (on which nothing was
\* sent before the tick): the tick sends an unsubscribe message for a
\* subscription on it only after a subscribe message for that subscription;
\* so after a reconnect no unsubscribe for a stale entry goes out on the
\* freshly opened connection.
C34_UnsubscribesFollowSubscribes ==
    \A i \in 1..Len(tk.ops) :
        (IsSend(tk.ops[i], "unsubscribe") /\ tk.ops[i].on = "new")
            => \E j \in 1..(i - 1) :
                  /\ IsSend(tk.ops[j], "subscribe")
                  /\ tk.ops[j].on = "new"
                  /\ tk.ops[j].p = tk.ops[i].p


\* A socket that is neither closed nor closing.
NeitherClosedNorClosing(sock) == sock.readyState \in {"CONNECTING", "OPEN"}

\* C35: of the sockets the transport has constructed, at most one is neither
\* closed nor closing, and it is the one this.wsConnection holds; a tick
\* constructs a socket only when there was none, or the one held was CLOSED,
\* or the tick has just called close() on it (it is then CLOSING, and kept
\* among the replaced sockets).
C35_AtMostOneLiveSocket ==
    /\ [](\A o \in BagToSet(old) : ~NeitherClosedNorClosing(o))
    /\ [][(wsConnection' # wsConnection /\ wsConnection'.readyState = "CONNECTING")
            => \/ connectionClosed
               \/ LET closing == [wsConnection EXCEPT !.readyState = "CLOSING",
                                                      !.active = {}]
                  IN /\ HasOp("close")'
                     /\ CopiesIn(closing, old') = CopiesIn(closing, old) + 1]_vars

\* A tick has closed the open socket it found and constructed another: the
\* transport has two sockets, the old one closing, the new one connecting.
C35_Witness ==
    /\ pc = "open"
    /\ HasOp("close")
    /\ wsConnection.readyState = "CONNECTING"
    /\ \E o \in BagToSet(old) : o.readyState = "CLOSING"


\* C36, as stated, in its first half: the ws_connection_active gauge, a
\* count of sockets, is never negative.
C36_GaugeNeverNegative ==
    wsConnectionActive >= 0


C38_MessageExceptions ==
    [][(last'.type = "message" /\ Throws(last'.result))
          => /\ UNCHANGED <<wsConnection, old, wsUrl, currentUrl, lastKnown,
                            desiredSubscriptions, wsConnectionActive,
                            sinceConnectionOpened, ticks>>
             /\ IF pc = "open" /\ last'.cur
                THEN /\ wsConnection.readyState = "OPEN"
                     /\ wsConnection.handler = "running"
                     /\ pc' = "idle"
                     /\ tk'.outcome = "messageThrew"
                ELSE UNCHANGED <<pc, tk, subscriptions>>
             /\ sinceLastMessageReceived'
                  = IF last'.result = "writeThrows" THEN 0 ELSE sinceLastMessageReceived]_vars

\* A first tick ended because a message threw while it waited for its open
\* handler; in the second tick, asleep after sending on that socket, a
\* message with results has come whose cache write threw: the tick goes on,
\* the socket is open, and lastMessageReceivedAt is the time of the message.
C38_Witness ==
    /\ pc = "sleep"
    /\ tk.prev = "messageThrew"
    /\ last.type = "message" /\ last.cur
    /\ last.result = "writeThrows"
    /\ sinceLastMessageReceived = 0
    /\ wsConnection.readyState = "OPEN"

====
